---- MODULE Spec2Model ----
(***************************************************************************)
(* Engine orchestration of vibeChess (App.tsx): the UCI request paths,     *)
(* the readiness gate, the generation counter, the suggestion cache and    *)
(* the game / analysis state they write to.                                *)
(*                                                                         *)
(* Scheduling model: the JavaScript event loop.  A macrotask (a UI event,  *)
(* a worker message, a timer) runs only when the microtask queue is empty; *)
(* a promise continuation runs as a microtask, in FIFO order; a React      *)
(* effect runs after the step that changed its dependencies and before the *)
(* next event, either before or after the continuations that are waiting.  *)
(***************************************************************************)
EXTENDS Integers, Sequences, FiniteSets, TLC

\* ---------------------------------------------------------------- bounds
MaxTasks == 3      \* async calls alive at the same time
MaxPly == 2        \* plies after which the abstract game is over
MaxClicks == 5     \* UI events of one run

\* ------------------------------------------------------ rules collaborator
\* chess.js, reduced to a game whose positions are the move lists played.
InitialFen == <<>>
NoFen == <<"null">>
WhiteMoves == <<"e2e4", "d2d4">>
BlackMoves == <<"e7e5">>

SeqToSet(s) == {s[i] : i \in DOMAIN s}

Turn(fen) == IF Len(fen) % 2 = 0 THEN "w" ELSE "b"

LegalMoves(fen) ==
  IF Len(fen) >= MaxPly THEN <<>>
  ELSE IF Turn(fen) = "w" THEN WhiteMoves ELSE BlackMoves

IsLegal(fen, mv) == mv \in SeqToSet(LegalMoves(fen))

buildGameOverText(fen) ==
  IF LegalMoves(fen) = <<>> THEN "Stalemate" ELSE "null"

\* ------------------------------------------------------------ suggestions
NoSugg == [uci |-> "", score |-> 0, src |-> NoFen]
Ranks == 1..3
EmptySuggestions == [k \in Ranks |-> NoSugg]

RECURSIVE Compact(_, _)
Compact(arr, k) ==
  IF k > 3 THEN <<>>
  ELSE IF arr[k] = NoSugg THEN Compact(arr, k + 1)
  ELSE <<arr[k]>> \o Compact(arr, k + 1)

RECURSIVE InsertDesc(_, _)
InsertDesc(sorted, s) ==
  IF sorted = <<>> THEN <<s>>
  ELSE IF Head(sorted).score >= s.score
       THEN <<Head(sorted)>> \o InsertDesc(Tail(sorted), s)
       ELSE <<s>> \o sorted

RECURSIVE SortDesc(_)
SortDesc(list) ==
  IF list = <<>> THEN <<>>
  ELSE InsertDesc(SortDesc(SubSeq(list, 1, Len(list) - 1)), list[Len(list)])

\* Faulty variant: the list is compacted and not sorted.
FilterSort_Unsorted(arr) == Compact(arr, 1)

\* `suggestions.filter(Boolean).sort((a, b) => b.score - a.score)`
FilterSort(arr) == SortDesc(Compact(arr, 1))

\* ------------------------------------------------------- strength policy
EloSet == {1100, 1600}

\* Faulty variant: every value is taken to the lower end.
clamp_ToLow(v, lo, hi) == lo

\* `Math.min(max, Math.max(min, v))`
clamp(v, lo, hi) ==
  LET raised == IF lo > v THEN lo ELSE v
  IN IF hi < raised THEN hi ELSE raised

\* Probabilities are counted in units of 1/4000, in which 0.02, 0.03, 0.05
\* and 0.75/1000 are whole numbers.
ProbUnit == 4000

\* Faulty variant: the ratings from 1600 on get the value of the formula.
computeBlunderProbability_NoFloor(elo) ==
  200 + 3 * clamp(1600 - elo, 0, 1000)

\* `if (elo >= 1600) return 0.02`,
\* `t = clamp((1600 - elo) / 1000, 0, 1)`, `return 0.05 + t * 0.75`
computeBlunderProbability(elo) ==
  IF elo >= 1600 THEN (2 * ProbUnit) \div 100
  ELSE LET t1000 == clamp(1600 - elo, 0, 1000)
       IN (5 * ProbUnit) \div 100 + (t1000 * 75 * ProbUnit) \div 100000

\* Math.round of the fraction num / den, den > 0: halves go up.
Round(num, den) == (2 * num + den) \div (2 * den)

\* Faulty variant: the rounded value is not clamped.
computeSkillLevel_Unclamped(elo) == Round((elo - 600) * 20, 2800 - 600)

\* `scaled = Math.round(((elo - 600) / (2800 - 600)) * 20)`,
\* `return clamp(scaled, 0, 20)`
computeSkillLevel(elo) == clamp(Round((elo - 600) * 20, 2800 - 600), 0, 20)

\* `const ENGINE_MIN_ELO = 1320`
ENGINE_MIN_ELO == 1320

\* Faulty variant: the rating is sent as it is.
EngineElo_Raw(eloValue) == eloValue

\* `Math.max(ENGINE_MIN_ELO, eloValue)`
EngineElo(eloValue) ==
  IF eloValue > ENGINE_MIN_ELO THEN eloValue ELSE ENGINE_MIN_ELO

\* Faulty variant: no rating takes the shortcut.
BestOnly_Never(e) == FALSE

\* `computeBlunderProbability(eloValue) <= 0.03`
BestOnly(e) == computeBlunderProbability(e) <= (3 * ProbUnit) \div 100

\* ------------------------------------------------------------------ state
VARIABLES
  game,               \* gameRef.current / boardFen / history
  playerColor,
  engineReady,
  engineThinking,
  gameOver,
  elo,
  analysisMode,
  analysisEntries,
  analysisIndex,
  analysisBoardFen,
  analysisSuggestions,
  analysisLoading,
  analysisError,
  readyResolvers,
  bestResolver,
  infoHandler,
  analysisCache,
  lastRequestedFen,
  engineBusy,
  analysisRequestId,
  tasks,              \* the async calls in progress
  microQ,             \* continuations whose promise is resolved
  fenEffectDue,       \* the analysisBoardFen effect has a changed dependency
  strengthEffectDue,  \* the elo effect has a changed dependency
  eng,                \* the engine process
  clicks,             \* history: UI events so far
  exchanged,          \* history: positions searched for loadAnalysisSuggestions since the cache was cleared
  probe               \* a helper function under test: its input and its result

gameVars == <<game, playerColor, engineThinking, gameOver>>
navVars == <<analysisMode, analysisEntries, analysisIndex, analysisBoardFen>>
outVars == <<analysisSuggestions, analysisLoading, analysisError>>
refVars == <<readyResolvers, bestResolver, infoHandler, engineBusy>>
genVars == <<analysisRequestId, lastRequestedFen, analysisCache>>
schedVars == <<tasks, microQ>>
effVars == <<fenEffectDue, strengthEffectDue>>

appVars == <<game, playerColor, engineReady, engineThinking, gameOver, elo,
             analysisMode, analysisEntries, analysisIndex, analysisBoardFen,
             analysisSuggestions, analysisLoading, analysisError,
             readyResolvers, bestResolver, infoHandler, analysisCache,
             lastRequestedFen, engineBusy, analysisRequestId, tasks, microQ,
             fenEffectDue, strengthEffectDue, eng, clicks, exchanged>>

vars == <<appVars, probe>>

\* ------------------------------------------------------------- the engine
\* The UCI engine behind the worker.  A command is taken in the order it is
\* posted; `isready` is answered by a later `readyok`, `go` by info lines and
\* exactly one `bestmove`; a `go` posted during a search waits for it.
\* newgames counts the `ucinewgame` commands taken, used tells that a
\* `position` or a `go` was taken.
Cmd(c, a) == [c |-> c, arg |-> a]

EngineRecv(e, cmd) ==
  CASE cmd.c = "isready" -> [e EXCEPT !.pendingReady = @ + 1]
    [] cmd.c = "ucinewgame" -> [e EXCEPT !.newgames = @ + 1]
    [] cmd.c = "position" -> [e EXCEPT !.pos = cmd.arg, !.used = TRUE]
    [] cmd.c = "MultiPV" -> [e EXCEPT !.multipv = cmd.arg]
    [] cmd.c = "go" ->
         [e EXCEPT !.used = TRUE,
                   !.searches =
            Append(@, [pos |-> e.pos, multipv |-> e.multipv, emitted |-> 0])]
    [] OTHER -> e

RECURSIVE sendEngine(_, _)
sendEngine(e, cmds) ==
  IF cmds = <<>> THEN e
  ELSE sendEngine(EngineRecv(e, Head(cmds)), Tail(cmds))

Msg(t, k, sc, mv, p) ==
  [type |-> t, rank |-> k, score |-> sc, move |-> mv, pos |-> p]

Min(a, b) == IF a < b THEN a ELSE b

ScoreOf(fen, k) == 50 - 20 * k

\* ------------------------------------------------------------------ tasks
\* old, asked and stopped are history: old tells that the call was
\* superseded, asked lists the requests requestWeakOrBestMove has made
\* (requestBestMove, requestMultiSuggestions), stopped tells that
\* loadAnalysisSuggestions found the engine busy and sent `stop`, steps
\* lists the protocol steps of the request the call is in: isready, readyok,
\* position, go, bestmove, return.
NoTask == [kind |-> "none", pc |-> "idle", fen |-> NoFen, rid |-> 0,
           sugg |-> EmptySuggestions, ret |-> <<>>, line |-> "", old |-> FALSE,
           elo |-> 0, asked |-> <<>>, stopped |-> FALSE, steps |-> <<>>]

Slots == 1..MaxTasks

\* Faulty variant: the continuation is queued without waiting for `readyok`.
AwaitReady_NoWait(queue, t) == Append(queue, t)

\* `await waitForReady()`: the continuation waits in readyResolvers and is
\* not queued.
AwaitReady(queue, t) == queue
HasFree == \E t \in Slots : tasks[t].kind = "none"
FreeSlot == CHOOSE t \in Slots :
              /\ tasks[t].kind = "none"
              /\ \A u \in Slots : tasks[u].kind = "none" => t <= u

\* applyEngineStrength(eloValue): the commands it sends, in order
\* (`value true` is 1).
applyEngineStrength(eloValue) ==
  <<Cmd("UCI_LimitStrength", 1),
    Cmd("UCI_Elo", EngineElo(eloValue)),
    Cmd("Skill Level", computeSkillLevel(eloValue))>>

\* An event handler runs when no continuation and no effect is waiting.
EngineMoveDue ==
  /\ gameOver = "null"
  /\ engineReady
  /\ ~analysisMode
  /\ ~engineThinking
  /\ Turn(game) = (IF playerColor = "white" THEN "b" ELSE "w")

\* A UI event, within the bound on their number.
Click == clicks < MaxClicks /\ clicks' = clicks + 1

EffectDue == strengthEffectDue \/ fenEffectDue \/ (EngineMoveDue /\ HasFree)

Quiet == microQ = <<>> /\ ~EffectDue

\* The state after construction, with analysisRequestIdRef at generation.
AppInitAt(generation) ==
  /\ game = InitialFen
  /\ playerColor = "white"
  /\ engineReady = FALSE
  /\ engineThinking = FALSE
  /\ gameOver = "null"
  /\ elo = 1600
  /\ analysisMode = FALSE
  /\ analysisEntries = <<>>
  /\ analysisIndex = 0
  /\ analysisBoardFen = NoFen
  /\ analysisSuggestions = <<>>
  /\ analysisLoading = FALSE
  /\ analysisError = "null"
  /\ readyResolvers = <<>>
  /\ bestResolver = 0
  /\ infoHandler = 0
  /\ analysisCache = <<>>
  /\ lastRequestedFen = NoFen
  /\ engineBusy = FALSE
  /\ analysisRequestId = generation
  /\ tasks = [t \in Slots |-> NoTask]
  /\ microQ = <<>>
  /\ fenEffectDue = FALSE
  /\ strengthEffectDue = FALSE
  /\ eng = [uciok |-> FALSE, pos |-> InitialFen, multipv |-> 1,
            pendingReady |-> 1, searches |-> <<>>,
            newgames |-> 0, used |-> FALSE]
  /\ exchanged = {}
  /\ clicks = 0

\* `analysisRequestIdRef = useRef(0)`
AppInit == AppInitAt(0)

\* No helper function is under test while the application runs.
NoProbe == [op |-> "none"]

Init == AppInit /\ probe = NoProbe

\* --------------------------------------------------------- worker.onmessage
\* Each handler below is the engine posting one reply line together with
\* worker.onmessage handling it: the worker's lines are handled in the order
\* they are posted, so a line that is posted late and one that is handled
\* late are the same to the application.
OnUciOk ==
  /\ UNCHANGED probe
  /\ Quiet
  /\ ~eng.uciok
  /\ eng' = [eng EXCEPT !.uciok = TRUE]
  /\ UNCHANGED <<clicks, exchanged>>
  /\ UNCHANGED <<gameVars, navVars, outVars, refVars, genVars, schedVars,
                 effVars, engineReady, elo>>

\* Faulty variant: one resolver per reply.
Released_FirstOnly(resolvers) ==
  IF resolvers = <<>> THEN <<>> ELSE <<Head(resolvers)>>

\* line === 'readyok': the resolver list is swapped for an empty one and
\* every resolver of the old list is called.
Released(resolvers) == resolvers

OnReadyOk ==
  /\ UNCHANGED probe
  /\ Quiet
  /\ eng.uciok
  /\ eng.pendingReady > 0
  /\ eng' = [eng EXCEPT !.pendingReady = @ - 1]
  /\ microQ' = microQ \o Released(readyResolvers)
  /\ readyResolvers' = SubSeq(readyResolvers,
                              Len(Released(readyResolvers)) + 1,
                              Len(readyResolvers))
  /\ engineReady' = TRUE
  /\ strengthEffectDue' = (strengthEffectDue \/ ~engineReady)
  /\ fenEffectDue' = (fenEffectDue \/ ~engineReady)
  /\ tasks' = [t \in Slots |->
                 IF t \in SeqToSet(Released(readyResolvers))
                 THEN [tasks[t] EXCEPT !.steps = Append(@, "readyok")]
                 ELSE tasks[t]]
  /\ UNCHANGED <<clicks, exchanged>>
  /\ UNCHANGED <<gameVars, navVars, outVars, genVars, bestResolver,
                 infoHandler, engineBusy, elo>>

\* Faulty variant: the mate distance is taken as the score.
NormalizeScore_Raw(type, value) == value

\* `type === 'cp' ? Number(valueStr) : Number(valueStr) > 0 ? 100000 : -100000`
NormalizeScore(type, value) ==
  IF type = "cp" THEN value ELSE IF value > 0 THEN 100000 ELSE -100000

\* line.startsWith('info') && infoHandler.current: the handler installed by
\* requestMultiSuggestions stores the line under its rank.
OnInfo ==
  /\ UNCHANGED probe
  /\ Quiet
  /\ eng.searches # <<>>
  /\ LET s == Head(eng.searches)
         k == s.emitted + 1
         m == Msg("info", k, ScoreOf(s.pos, k), LegalMoves(s.pos)[k], s.pos)
     IN /\ k <= Min(s.multipv, Len(LegalMoves(s.pos)))
        /\ eng' = [eng EXCEPT !.searches[1].emitted = k]
        /\ tasks' = IF infoHandler = 0 THEN tasks
                    ELSE [tasks EXCEPT ![infoHandler].sugg[m.rank] =
                            [uci |-> m.move,
                             score |-> NormalizeScore("cp", m.score),
                             src |-> m.pos]]
  /\ UNCHANGED <<clicks, exchanged>>
  /\ UNCHANGED <<gameVars, navVars, outVars, refVars, genVars, microQ,
                 effVars, engineReady, elo>>

\* A reply line is the sequence of its words.
\* `line.match(/bestmove\s+(\S+)/)?.[1] ?? ''`
ParseBestMove(line) ==
  IF Len(line) >= 2 /\ line[1] = "bestmove" THEN line[2] ELSE ""

\* `return move || null`
OrNull(move) == IF move = "" THEN "null" ELSE move

\* line.startsWith('bestmove'): the pending resolver, if any, is called and
\* both handlers are cleared.  The engine ends a search with the move of
\* its first line, or with `(none)` where the position has no move.
OnBestMove ==
  /\ UNCHANGED probe
  /\ Quiet
  /\ eng.searches # <<>>
  /\ eng' = [eng EXCEPT !.searches = Tail(@)]
  /\ LET s == Head(eng.searches)
     IN \E mv \in (IF LegalMoves(s.pos) = <<>> THEN {"(none)"}
                   ELSE {LegalMoves(s.pos)[1]}) :
          IF bestResolver = 0
          THEN UNCHANGED schedVars
          ELSE /\ tasks' = [tasks EXCEPT
                            ![bestResolver].line =
                              ParseBestMove(<<"bestmove", mv>>),
                            ![bestResolver].steps = Append(@, "bestmove")]
               /\ microQ' = Append(microQ, bestResolver)
  /\ bestResolver' = 0
  /\ infoHandler' = 0
  /\ UNCHANGED <<clicks, exchanged>>
  /\ UNCHANGED <<gameVars, navVars, outVars, genVars, readyResolvers,
                 engineBusy, effVars, engineReady, elo>>

\* ----------------------------------------------------------- continuations
Run(t, pc) ==
  /\ microQ # <<>>
  /\ Head(microQ) = t
  /\ tasks[t].pc = pc

\* requestBestMove after `await waitForReady()`.
BestMoveGo(t) ==
  /\ UNCHANGED probe
  /\ Run(t, "ready_bm")
  /\ eng' = sendEngine(eng, <<Cmd("position", tasks[t].fen), Cmd("go", 0)>>)
  /\ bestResolver' = t
  /\ engineBusy' = TRUE
  /\ tasks' = [tasks EXCEPT ![t].pc = "best_bm",
                            ![t].steps = @ \o <<"position", "go">>]
  /\ microQ' = Tail(microQ)
  /\ UNCHANGED <<clicks, exchanged>>
  /\ UNCHANGED <<gameVars, navVars, outVars, genVars, readyResolvers,
                 infoHandler, effVars, engineReady, elo>>

\* requestBestMove after `await bestMovePromise`.
BestMoveDone(t) ==
  /\ UNCHANGED probe
  /\ Run(t, "best_bm")
  /\ engineBusy' = FALSE
  /\ tasks' = [tasks EXCEPT ![t].pc = "bm_ret",
                            ![t].line = OrNull(tasks[t].line),
                            ![t].steps = Append(@, "return")]
  /\ microQ' = Append(Tail(microQ), t)
  /\ UNCHANGED <<clicks, exchanged>>
  /\ UNCHANGED <<gameVars, navVars, outVars, genVars, readyResolvers,
                 bestResolver, infoHandler, effVars, engineReady, elo,
                 eng>>

\* Faulty variant: the returned move is played without asking the rules.
MovePlayed_Unchecked(fen, move) == TRUE

\* `gameRef.current.move({from, to, promotion: 'q'})` inside try/catch: the
\* move is played unless the rules refuse it, by an exception or by null.
MovePlayed(fen, move) == IsLegal(fen, move)

\* The .then callback of the engine move effect.
EngineMoveApply(t) ==
  /\ UNCHANGED probe
  /\ Run(t, "bm_ret")
  /\ LET mv == tasks[t].line
         ok == mv # "null" /\ MovePlayed(game, mv)
         after == Append(game, mv)
     IN /\ game' = IF ok THEN after ELSE game
        /\ gameOver' = IF ok /\ buildGameOverText(after) # "null"
                       THEN buildGameOverText(after) ELSE gameOver
  /\ engineThinking' = FALSE
  /\ strengthEffectDue' = (strengthEffectDue \/ engineThinking)
  /\ tasks' = [tasks EXCEPT ![t] = NoTask]
  /\ microQ' = Tail(microQ)
  /\ UNCHANGED <<clicks, exchanged>>
  /\ UNCHANGED <<playerColor, navVars, outVars, refVars, genVars,
                 fenEffectDue, engineReady, elo, eng>>

\* Faulty variant: a request never takes itself for superseded.
Stale_Never(t) == FALSE

Stale(t) == tasks[t].rid # 0 /\ analysisRequestId # tasks[t].rid

\* requestMultiSuggestions after the first `await waitForReady()`.
MultiGo(t) ==
  /\ UNCHANGED probe
  /\ Run(t, "ready_ms1")
  /\ IF Stale(t)
     THEN /\ tasks' = [tasks EXCEPT ![t].pc = "ms_ret", ![t].ret = <<>>,
                                    ![t].steps = Append(@, "return")]
          /\ microQ' = Append(Tail(microQ), t)
          /\ UNCHANGED <<eng, infoHandler, bestResolver, engineBusy>>
     ELSE /\ eng' = sendEngine(eng, <<Cmd("MultiPV", 3),
                                      Cmd("position", tasks[t].fen),
                                      Cmd("go", 0)>>)
          /\ infoHandler' = t
          /\ bestResolver' = t
          /\ engineBusy' = TRUE
          /\ tasks' = [tasks EXCEPT ![t].pc = "best_ms",
                                    ![t].steps = @ \o <<"position", "go">>]
          /\ microQ' = Tail(microQ)
  /\ exchanged' = IF ~Stale(t) /\ tasks[t].kind = "load"
                   THEN exchanged \cup {tasks[t].fen} ELSE exchanged
  /\ UNCHANGED clicks
  /\ UNCHANGED <<gameVars, navVars, outVars, genVars, readyResolvers,
                 effVars, engineReady, elo>>

\* requestMultiSuggestions after `await bestPromise`.
MultiDone(t) ==
  /\ UNCHANGED probe
  /\ Run(t, "best_ms")
  /\ engineBusy' = FALSE
  /\ infoHandler' = 0
  /\ bestResolver' = 0
  /\ IF Stale(t)
     THEN /\ tasks' = [tasks EXCEPT ![t].pc = "ms_ret",
                                    ![t].ret = FilterSort(tasks[t].sugg),
                                    ![t].steps = Append(@, "return")]
          /\ microQ' = Append(Tail(microQ), t)
          /\ UNCHANGED <<eng, readyResolvers>>
     ELSE /\ readyResolvers' = Append(readyResolvers, t)
          /\ eng' = sendEngine(eng, <<Cmd("isready", 0)>>)
          /\ tasks' = [tasks EXCEPT ![t].pc = "ready_ms2",
                                    ![t].steps = Append(@, "isready")]
          /\ microQ' = AwaitReady(Tail(microQ), t)
  /\ UNCHANGED <<clicks, exchanged>>
  /\ UNCHANGED <<gameVars, navVars, outVars, genVars, effVars, engineReady,
                 elo>>

\* requestMultiSuggestions after the second `await waitForReady()`.
MultiReset(t) ==
  /\ UNCHANGED probe
  /\ Run(t, "ready_ms2")
  /\ eng' = sendEngine(eng, <<Cmd("MultiPV", 1)>>)
  /\ tasks' = [tasks EXCEPT ![t].pc = "ms_ret",
                            ![t].ret = FilterSort(tasks[t].sugg),
                            ![t].steps = Append(@, "return")]
  /\ microQ' = Append(Tail(microQ), t)
  /\ UNCHANGED <<clicks, exchanged>>
  /\ UNCHANGED <<gameVars, navVars, outVars, refVars, genVars, effVars,
                 engineReady, elo>>

\* Faulty variant: the generation is not compared before the commit.
StillActive_Unchecked(rid) == TRUE

\* `analysisRequestIdRef.current === requestId`
StillActive(rid) == analysisRequestId = rid

CacheSet(cache, fen, list) ==
  [p \in (DOMAIN cache) \cup {fen} |-> IF p = fen THEN list ELSE cache[p]]

\* loadAnalysisSuggestions after `await requestMultiSuggestions(...)`.
LoadCommit(t) ==
  /\ UNCHANGED probe
  /\ Run(t, "ms_ret")
  /\ tasks[t].kind = "load"
  /\ LET cur == StillActive(tasks[t].rid)
         here == cur /\ lastRequestedFen = tasks[t].fen
     IN /\ analysisCache' = IF cur
                            THEN CacheSet(analysisCache, tasks[t].fen,
                                          tasks[t].ret)
                            ELSE analysisCache
        /\ analysisSuggestions' = IF here THEN tasks[t].ret
                                  ELSE analysisSuggestions
        /\ analysisLoading' = IF here THEN FALSE ELSE analysisLoading
  /\ tasks' = [tasks EXCEPT ![t] = NoTask]
  /\ microQ' = Tail(microQ)
  /\ UNCHANGED <<clicks, exchanged>>
  /\ UNCHANGED <<gameVars, navVars, analysisError, refVars,
                 analysisRequestId, lastRequestedFen, effVars, engineReady,
                 elo, eng>>

\* pickMoveWithBlunder, over every value of Math.random().
DrawSlots == 20    \* values of one Math.random() draw

\* The values of Math.random(), in units of 1/ProbUnit: 0 <= draw < 1.
Draws == {(k * ProbUnit) \div DrawSlots : k \in 0..(DrawSlots - 1)}

\* pickMoveWithBlunder(fen, options, blunderProb), with the two values
\* Math.random() yields.
pickMoveWithBlunder(fen, options, blunderProb, rand, rand2) ==
  LET legalMoves == LegalMoves(fen)
  IN IF options = <<>> THEN "null"
     ELSE IF 10 * rand < blunderProb * 4 /\ legalMoves # <<>>
     THEN legalMoves[(rand2 * Len(legalMoves)) \div ProbUnit + 1]
     ELSE IF rand < blunderProb /\ Len(options) >= 2
     THEN IF 10 * rand < blunderProb * 7 /\ Len(options) >= 3
          THEN options[Len(options)].uci
          ELSE options[2].uci
     ELSE options[1].uci

\* The moves pickMoveWithBlunder may return, over the random draws.
PickSet(fen, options, blunderProb) ==
  {pickMoveWithBlunder(fen, options, blunderProb, rand, rand2) :
     rand \in Draws, rand2 \in Draws}

\* requestWeakOrBestMove after `await requestMultiSuggestions(fen, 3)`.
WeakPick(t) ==
  /\ UNCHANGED probe
  /\ Run(t, "ms_ret")
  /\ tasks[t].kind = "move"
  /\ IF tasks[t].ret = <<>>
     THEN /\ readyResolvers' = Append(readyResolvers, t)
          /\ eng' = sendEngine(eng, <<Cmd("isready", 0)>>)
          /\ tasks' = [tasks EXCEPT ![t].pc = "ready_bm",
                                    ![t].asked = Append(@, "best"),
                                    ![t].steps = <<"isready">>]
          /\ microQ' = AwaitReady(Tail(microQ), t)
     ELSE /\ \E mv \in PickSet(tasks[t].fen, tasks[t].ret,
                             computeBlunderProbability(tasks[t].elo)) :
               tasks' = [tasks EXCEPT ![t].pc = "bm_ret", ![t].line = mv]
          /\ microQ' = Append(Tail(microQ), t)
          /\ UNCHANGED <<eng, readyResolvers>>
  /\ UNCHANGED <<clicks, exchanged>>
  /\ UNCHANGED <<gameVars, navVars, outVars, genVars, bestResolver,
                 infoHandler, engineBusy, effVars, engineReady, elo>>

\* loadAnalysisSuggestions after `await waitForEngineIdle()`.
LoadAfterIdle(t) ==
  /\ UNCHANGED probe
  /\ Run(t, "idle_ok")
  /\ IF analysisRequestId # tasks[t].rid
     THEN /\ tasks' = [tasks EXCEPT ![t] = NoTask]
          /\ UNCHANGED <<eng, readyResolvers>>
     ELSE /\ readyResolvers' = Append(readyResolvers, t)
          /\ eng' = sendEngine(eng, <<Cmd("isready", 0)>>)
          /\ tasks' = [tasks EXCEPT ![t].pc = "ready_ms1",
                                    ![t].steps = <<"isready">>]
  /\ microQ' = IF analysisRequestId # tasks[t].rid THEN Tail(microQ)
               ELSE AwaitReady(Tail(microQ), t)
  /\ UNCHANGED <<clicks, exchanged>>
  /\ UNCHANGED <<gameVars, navVars, outVars, genVars, bestResolver,
                 infoHandler, engineBusy, effVars, engineReady, elo>>

\* `while (engineBusyRef.current)` is left
EngineIdle(busy) == ~busy

\* waitForEngineIdle: the 50 ms timer fires and the flag is read again.
PollTimer(t) ==
  /\ UNCHANGED probe
  /\ Quiet
  /\ tasks[t].pc = "poll"
  /\ EngineIdle(engineBusy)
  /\ tasks' = [tasks EXCEPT ![t].pc = "idle_ok"]
  /\ microQ' = Append(microQ, t)
  /\ UNCHANGED <<clicks, exchanged>>
  /\ UNCHANGED <<gameVars, navVars, outVars, refVars, genVars, effVars,
                 engineReady, elo, eng>>

\* ---------------------------------------------------- loadAnalysisSuggestions
\* The part of loadAnalysisSuggestions(fen) that runs inside the caller, up
\* to its first await.  cache, shown and err are the cache, the suggestions
\* and the error the caller has set before the call.
\* Faulty variant: the cache is not consulted.
CacheHit_Never(cache, fen) == FALSE

\* `const cached = analysisCacheRef.current.get(fen); if (cached)`
CacheHit(cache, fen) == fen \in DOMAIN cache

\* Faulty variant: the lookup yields the fallback list.
CacheGet_Fallback(cache, fen) == <<>>

\* `analysisCacheRef.current.get(fen) ?? []`
CacheGet(cache, fen) == IF CacheHit(cache, fen) THEN cache[fen] ELSE <<>>

\* Faulty variant: the generation is read and not advanced.
NextRequestId_Same(id) == id

\* `++analysisRequestIdRef.current`
NextRequestId(id) == id + 1

\* Room for n more cache-missing requests within the bounds.
Room(n) ==
  Cardinality({t \in Slots : tasks[t].kind = "none"}) >= n

loadAnalysisSuggestions(fen, cache, shown, err) ==
  /\ analysisCache' = cache
  /\ IF ~engineReady
     THEN /\ analysisLoading' = FALSE
          /\ analysisSuggestions' = shown
          /\ analysisError' = err
          /\ UNCHANGED <<analysisRequestId, lastRequestedFen, tasks, microQ,
                         eng>>
     ELSE IF CacheHit(cache, fen)
     THEN /\ analysisSuggestions' = CacheGet(cache, fen)
          /\ analysisLoading' = FALSE
          /\ analysisError' = err
          /\ UNCHANGED <<analysisRequestId, lastRequestedFen, tasks, microQ,
                         eng>>
     ELSE /\ Room(1)
          /\ analysisRequestId' = NextRequestId(analysisRequestId)
          /\ analysisLoading' = TRUE
          /\ analysisError' = "null"
          /\ analysisSuggestions' = <<>>
          /\ lastRequestedFen' = fen
          /\ eng' = IF engineBusy THEN sendEngine(eng, <<Cmd("stop", 0)>>)
                    ELSE eng
          /\ tasks' = [tasks EXCEPT ![FreeSlot] =
                         [NoTask EXCEPT !.kind = "load",
                                        !.pc = IF engineBusy THEN "poll"
                                               ELSE "idle_ok",
                                        !.fen = fen,
                                        !.stopped = engineBusy,
                                        !.rid = analysisRequestId']]
          /\ microQ' = IF engineBusy THEN microQ ELSE Append(microQ, FreeSlot)

\* A call that is followed by the analysisBoardFen effect needs room for the
\* effect's own call as well.
LoadRoom(cache, fen, again) ==
  (engineReady /\ ~CacheHit(cache, fen)) => Room(IF again THEN 2 ELSE 1)

\* ------------------------------------------------------------- the timeline
\* An optional move field that is not set.
NoMove == "undefined"

\* Faulty variant: the entry keeps the index of the move, not of the position.
MoveIndexOf_Same(idx) == idx

\* `moveIndex: idx + 1`
MoveIndexOf(idx) == idx + 1

\* Faulty variant: the previous entry is left as it is.
SetNextMove_Skipped(entries, moveData) == entries

\* `entries[entries.length - 1].nextMove = moveData`
SetNextMove(entries, moveData) ==
  [entries EXCEPT ![Len(entries)].nextMove = moveData]

\* Faulty variant: the move is accepted and the position is not advanced.
MoveOn_Dropped(analyser, move) == analyser

\* analyser.move({from, to, promotion}) of a legal move
MoveOn(analyser, move) == Append(analyser, move)

\* The forEach callback of buildAnalysisEntriesFromVerbose from move idx
\* (0-based) on; a move the analyser refuses with a null result ends its own
\* callback only.
RECURSIVE BuildFrom(_, _, _, _)
BuildFrom(verboseMoves, idx, analyser, entries) ==
  IF idx >= Len(verboseMoves) THEN entries
  ELSE LET move == verboseMoves[idx + 1]
       IN IF ~IsLegal(analyser, move)
          THEN BuildFrom(verboseMoves, idx + 1, analyser, entries)
          ELSE LET after == MoveOn(analyser, move)
               IN BuildFrom(verboseMoves, idx + 1, after,
                    Append(SetNextMove(entries, move),
                           [fen |-> after,
                            moveIndex |-> MoveIndexOf(idx),
                            playedMove |-> move,
                            nextMove |-> NoMove,
                            turn |-> Turn(after)]))

buildAnalysisEntriesFromVerbose(verboseMoves) ==
  BuildFrom(verboseMoves, 0, InitialFen,
            <<[fen |-> InitialFen, moveIndex |-> 0, playedMove |-> NoMove,
               nextMove |-> NoMove, turn |-> Turn(InitialFen)]>>)

\* buildAnalysisEntries() of the application, on the history of the game.
buildAnalysisEntries(moves) == buildAnalysisEntriesFromVerbose(moves)

\* Faulty variant: the loop goes on with the move after the refused one.
AfterRefused_Next(verboseMoves, i) == i + 1

\* `break`: the loop of sanitizeVerboseHistory ends at a refused move.
AfterRefused(verboseMoves, i) == Len(verboseMoves)

\* The for loop of sanitizeVerboseHistory from move i (0-based) on; a move
\* refused with a null result or with an exception ends the loop.
RECURSIVE SanitizeFrom(_, _, _, _)
SanitizeFrom(verboseMoves, i, replay, sanitized) ==
  IF i >= Len(verboseMoves)
  THEN [sanitized |-> sanitized, replay |-> replay]
  ELSE LET mv == verboseMoves[i + 1]
       IN IF IsLegal(replay, mv)
          THEN SanitizeFrom(verboseMoves, i + 1, Append(replay, mv),
                            Append(sanitized, mv))
          ELSE SanitizeFrom(verboseMoves, AfterRefused(verboseMoves, i),
                            replay, sanitized)

sanitizeVerboseHistory(verboseMoves) ==
  SanitizeFrom(verboseMoves, 0, InitialFen, <<>>)

EmptyCache == <<>>

\* History: the calls of the given kinds that are in progress started before
\* the reset that is being made.
Outdated(kinds) ==
  [t \in Slots |-> IF tasks[t].kind \in kinds
                   THEN [tasks[t] EXCEPT !.old = TRUE] ELSE tasks[t]]

\* -------------------------------------------------------------- UI handlers
\* The handlers run from the board, the New Game button (enabled once the
\* engine is ready, colour white by default), the colour buttons (enabled
\* while no game is in progress), the game-over dialog and the Analyze button.
\* The pieces dragged in the runs explored: a pawn of each side, so that a
\* drop is legal or refused according to the side to move.
DropMoves == {"e2e4", "e7e5"}

onDrop(mv) ==
  /\ UNCHANGED probe
  /\ Quiet
  /\ Click
  /\ ~analysisMode
  /\ gameOver = "null"
  /\ ~engineThinking
  /\ Turn(game) = (IF playerColor = "white" THEN "w" ELSE "b")
  /\ IsLegal(game, mv)
  /\ HasFree
  /\ game' = Append(game, mv)
  /\ gameOver' = buildGameOverText(game')
  /\ UNCHANGED <<playerColor, engineThinking, navVars, outVars, refVars,
                 genVars, schedVars, effVars, engineReady, elo, eng,
                 exchanged>>

makeAnalysisMove(mv) ==
  /\ UNCHANGED probe
  /\ Quiet
  /\ Click
  /\ analysisMode
  /\ analysisBoardFen # NoFen
  /\ IsLegal(analysisBoardFen, mv)
  /\ LoadRoom(analysisCache, Append(analysisBoardFen, mv), FALSE)
  /\ analysisBoardFen' = Append(analysisBoardFen, mv)
  /\ fenEffectDue' = TRUE
  /\ UNCHANGED <<gameVars, analysisMode, analysisEntries, analysisIndex,
                 outVars, refVars, genVars, schedVars, strengthEffectDue,
                 engineReady, elo, eng, exchanged>>

startNewGame(color) ==
  /\ UNCHANGED probe
  /\ Quiet
  /\ Click
  /\ \/ engineReady /\ color = "white"
     \/ color # playerColor /\ ~(game # <<>> /\ gameOver = "null")
     \/ gameOver # "null" /\ color = playerColor
  /\ HasFree
  /\ eng' = IF engineBusy THEN sendEngine(eng, <<Cmd("stop", 0)>>) ELSE eng
  /\ analysisRequestId' = NextRequestId(analysisRequestId)
  /\ game' = InitialFen
  /\ gameOver' = "null"
  /\ analysisMode' = FALSE
  /\ playerColor' = color
  /\ engineThinking' = FALSE
  /\ analysisEntries' = <<>>
  /\ analysisIndex' = 0
  /\ analysisBoardFen' = NoFen
  /\ analysisSuggestions' = <<>>
  /\ analysisLoading' = FALSE
  /\ analysisError' = "null"
  /\ analysisCache' = EmptyCache
  /\ strengthEffectDue' = (strengthEffectDue \/ engineThinking)
  /\ fenEffectDue' = (fenEffectDue \/ analysisMode)
  /\ tasks' = Outdated({"move", "load"})
  /\ exchanged' = {}
  /\ UNCHANGED <<refVars, lastRequestedFen, microQ, engineReady, elo>>

enterAnalysisMode ==
  /\ UNCHANGED probe
  /\ Quiet
  /\ Click
  /\ ~analysisMode
  /\ ~engineThinking \/ gameOver # "null"
  /\ engineReady
  /\ game # <<>>
  /\ LET entries == buildAnalysisEntries(game)
     IN /\ LoadRoom(EmptyCache, entries[1].fen, TRUE)
        /\ analysisEntries' = entries
        /\ analysisMode' = TRUE
        /\ analysisIndex' = 0
        /\ analysisBoardFen' = entries[1].fen
        /\ loadAnalysisSuggestions(entries[1].fen, EmptyCache, <<>>, "null")
  /\ fenEffectDue' = TRUE
  /\ exchanged' = {}
  /\ UNCHANGED <<gameVars, refVars, strengthEffectDue, engineReady, elo>>

leaveAnalysisMode ==
  /\ UNCHANGED probe
  /\ Quiet
  /\ Click
  /\ analysisMode
  /\ HasFree
  /\ analysisMode' = FALSE
  /\ analysisEntries' = <<>>
  /\ analysisIndex' = 0
  /\ analysisBoardFen' = NoFen
  /\ analysisSuggestions' = <<>>
  /\ analysisLoading' = FALSE
  /\ analysisError' = "null"
  /\ analysisCache' = EmptyCache
  /\ fenEffectDue' = TRUE
  /\ tasks' = Outdated({"load"})
  /\ exchanged' = {}
  /\ UNCHANGED <<gameVars, refVars, analysisRequestId, lastRequestedFen,
                 microQ, strengthEffectDue, engineReady, elo, eng>>

goToAnalysisIndex(nextIndex) ==
  /\ UNCHANGED probe
  /\ Quiet
  /\ Click
  /\ IF ~analysisMode \/ analysisEntries = <<>>
     THEN UNCHANGED <<navVars, outVars, genVars, schedVars, fenEffectDue,
                      eng>>
     ELSE LET safeIndex == clamp(nextIndex, 0, Len(analysisEntries) - 1)
              entry == analysisEntries[safeIndex + 1]
          IN /\ LoadRoom(analysisCache, entry.fen,
                         entry.fen # analysisBoardFen)
             /\ analysisIndex' = safeIndex
             /\ analysisBoardFen' = entry.fen
             /\ fenEffectDue' = (fenEffectDue \/ entry.fen # analysisBoardFen)
             /\ loadAnalysisSuggestions(entry.fen, analysisCache,
                                        CacheGet(analysisCache, entry.fen),
                                        analysisError)
             /\ UNCHANGED <<analysisMode, analysisEntries>>
  /\ UNCHANGED <<gameVars, refVars, strengthEffectDue, engineReady, elo,
                 exchanged>>

setElo(e) ==
  /\ UNCHANGED probe
  /\ Quiet
  /\ Click
  /\ e # elo
  /\ elo' = e
  /\ strengthEffectDue' = TRUE
  /\ UNCHANGED <<gameVars, navVars, outVars, refVars, genVars, schedVars,
                 fenEffectDue, engineReady, eng, exchanged>>

\* ------------------------------------------------------------------ effects
\* useEffect [elo, engineReady, engineThinking]: applyEngineStrength + isready
StrengthEffect ==
  /\ UNCHANGED probe
  /\ strengthEffectDue
  /\ strengthEffectDue' = FALSE
  /\ eng' = IF engineReady /\ ~engineThinking
            THEN sendEngine(eng, applyEngineStrength(elo)
                                   \o <<Cmd("isready", 0)>>)
            ELSE eng
  /\ UNCHANGED <<clicks, exchanged>>
  /\ UNCHANGED <<gameVars, navVars, outVars, refVars, genVars, schedVars,
                 fenEffectDue, engineReady, elo>>

\* useEffect [analysisMode, analysisBoardFen, loadAnalysisSuggestions]
AnalysisFenEffect ==
  /\ UNCHANGED probe
  /\ ~strengthEffectDue
  /\ fenEffectDue
  /\ fenEffectDue' = FALSE
  /\ IF analysisMode /\ analysisBoardFen # NoFen
     THEN loadAnalysisSuggestions(analysisBoardFen, analysisCache,
                                  analysisSuggestions, analysisError)
     ELSE UNCHANGED <<outVars, genVars, schedVars, eng>>
  /\ UNCHANGED <<clicks, exchanged>>
  /\ UNCHANGED <<gameVars, navVars, refVars, strengthEffectDue, engineReady,
                 elo>>

\* useEffect [boardFen, engineReady, gameOver, analysisMode, ...]: the engine
\* is asked for its move through requestWeakOrBestMove.
EngineMoveEffect ==
  /\ UNCHANGED probe
  /\ ~strengthEffectDue
  /\ ~fenEffectDue
  /\ EngineMoveDue
  /\ HasFree
  /\ engineThinking' = TRUE
  /\ tasks' = [tasks EXCEPT ![FreeSlot] =
                 [NoTask EXCEPT !.kind = "move",
                                !.pc = IF BestOnly(elo) THEN "ready_bm"
                                       ELSE "ready_ms1",
                                !.fen = game,
                                !.elo = elo,
                                !.asked = IF BestOnly(elo) THEN <<"best">>
                                          ELSE <<"multi">>,
                                !.steps = <<"isready">>,
                                !.old = FALSE]]
  /\ microQ' = AwaitReady(microQ, FreeSlot)
  /\ readyResolvers' = Append(readyResolvers, FreeSlot)
  /\ eng' = sendEngine(eng, <<Cmd("isready", 0)>>)
  /\ UNCHANGED <<clicks, exchanged>>
  /\ UNCHANGED <<game, playerColor, gameOver, navVars,
                 outVars, bestResolver, infoHandler, engineBusy, genVars,
                 effVars, engineReady, elo>>

\* -------------------------------------------------------------------- Next
Next ==
  \/ OnUciOk
  \/ OnReadyOk
  \/ OnInfo
  \/ OnBestMove
  \/ \E t \in Slots : BestMoveGo(t)
  \/ \E t \in Slots : BestMoveDone(t)
  \/ \E t \in Slots : EngineMoveApply(t)
  \/ \E t \in Slots : MultiGo(t)
  \/ \E t \in Slots : MultiDone(t)
  \/ \E t \in Slots : MultiReset(t)
  \/ \E t \in Slots : LoadCommit(t)
  \/ \E t \in Slots : WeakPick(t)
  \/ \E t \in Slots : LoadAfterIdle(t)
  \/ \E t \in Slots : PollTimer(t)
  \/ \E mv \in DropMoves : onDrop(mv)
  \/ \E mv \in DropMoves : makeAnalysisMove(mv)
  \/ \E color \in {"white", "black"} : startNewGame(color)
  \/ enterAnalysisMode
  \/ leaveAnalysisMode
  \/ \E n \in -1..(MaxPly + 1) : goToAnalysisIndex(n)
  \/ \E e \in EloSet : setElo(e)
  \/ StrengthEffect
  \/ AnalysisFenEffect
  \/ EngineMoveEffect

Spec == Init /\ [][Next]_vars

\* ------------------------------------------------- helper functions alone
\* A second specification: one helper function is applied to one input drawn
\* from a bounded set, while the application stays in its initial state.
BestMoveLines ==
  {<<"bestmove">>, <<"bestmove", "(none)">>, <<"bestmove", "e2e4">>,
   <<"bestmove", "e7e5", "ponder", "e2e4">>, <<"bestmove", "d2d4", "ponder">>}

BestMoveProbes ==
  {[op |-> "bestmove", line |-> l, done |-> FALSE, move |-> ""] :
     l \in BestMoveLines}

\* requestBestMove from the bestmove line to its return value.
ApplyBestMove ==
  /\ probe.op = "bestmove"
  /\ ~probe.done
  /\ probe' = [probe EXCEPT !.done = TRUE,
                            !.move = OrNull(ParseBestMove(probe.line))]
  /\ UNCHANGED appVars

MaxLines == 3      \* info lines of one ranked request

\* The principal move the engine reports for a rank.
PvOf(k) == <<"e2e4", "d2d4", "g1f3">>[k]

\* `info ... multipv <rank> ... score (cp|mate) <value> ... pv <move>`, and
\* an info line without these fields.
InfoLines ==
  {[match |-> TRUE, multipv |-> k, type |-> ty.t, value |-> ty.v,
    pv |-> PvOf(k)] :
     k \in Ranks,
     ty \in {[t |-> "cp", v |-> 50], [t |-> "cp", v |-> -50],
             [t |-> "mate", v |-> 1], [t |-> "mate", v |-> 3],
             [t |-> "mate", v |-> -2]}}
  \cup {[match |-> FALSE, multipv |-> 1, type |-> "cp", value |-> 0,
         pv |-> ""]}

RECURSIVE SeqsUpTo(_, _)
SeqsUpTo(S, n) ==
  IF n = 0 THEN {<<>>}
  ELSE LET shorter == SeqsUpTo(S, n - 1)
       IN shorter \cup {Append(q, x) : q \in shorter, x \in S}

RankProbes ==
  {[op |-> "rank", lines |-> ls, done |-> FALSE, list |-> <<>>] :
     ls \in SeqsUpTo(InfoLines, MaxLines)}

\* Faulty variant: a line is stored whether or not it matched.
InfoHandle_StoresAll(arr, line, fen) ==
  [arr EXCEPT ![line.multipv] =
     [uci |-> line.pv, score |-> line.value, src |-> fen]]

\* infoHandler.current(line) of requestMultiSuggestions(fen, ...)
InfoHandle(arr, line, fen) ==
  IF ~line.match THEN arr
  ELSE [arr EXCEPT ![line.multipv] =
          [uci |-> line.pv,
           score |-> NormalizeScore(line.type, line.value),
           src |-> fen]]

RECURSIVE Accumulate(_, _, _)
Accumulate(arr, lines, fen) ==
  IF lines = <<>> THEN arr
  ELSE Accumulate(InfoHandle(arr, Head(lines), fen), Tail(lines), fen)

\* requestMultiSuggestions from the info lines received to its return value.
ApplyRank ==
  /\ probe.op = "rank"
  /\ ~probe.done
  /\ probe' = [probe EXCEPT
                 !.done = TRUE,
                 !.list = FilterSort(Accumulate(EmptySuggestions, probe.lines,
                                               InitialFen))]
  /\ UNCHANGED appVars

\* The three engine calls with and without a transport (workerRef.current).
CallProbes ==
  {[op |-> "call", fn |-> f, worker |-> w, started |-> FALSE,
    outcome |-> "pending"] :
     f \in {"waitForReady", "requestBestMove", "requestMultiSuggestions"},
     w \in {"null", "worker"}}

\* Faulty variant: the transport is taken to exist.
HasWorker_Always(w) == TRUE

\* `workerRef.current` is set
HasWorker(w) == w # "null"

\* What the call returns at once when there is no transport.
NoWorkerOutcome(fn) ==
  CASE fn = "waitForReady" -> "resolved"
    [] fn = "requestBestMove" -> "null"
    [] fn = "requestMultiSuggestions" -> "empty list"

\* The continuation that waits for `readyok` when there is a transport.
FirstAwait(fn) ==
  CASE fn = "waitForReady" -> "ready_w"
    [] fn = "requestBestMove" -> "ready_bm"
    [] fn = "requestMultiSuggestions" -> "ready_ms1"

\* waitForReady, requestBestMove or requestMultiSuggestions(fen) from the
\* call to its first await.
StartCall ==
  /\ probe.op = "call"
  /\ ~probe.started
  /\ IF ~HasWorker(probe.worker)
     THEN /\ probe' = [probe EXCEPT !.started = TRUE,
                                    !.outcome = NoWorkerOutcome(probe.fn)]
          /\ UNCHANGED appVars
     ELSE /\ probe' = [probe EXCEPT !.started = TRUE]
          /\ readyResolvers' = Append(readyResolvers, FreeSlot)
          /\ eng' = sendEngine(eng, <<Cmd("isready", 0)>>)
          /\ tasks' = [tasks EXCEPT ![FreeSlot] =
                         [NoTask EXCEPT !.kind = "call",
                                        !.pc = FirstAwait(probe.fn),
                                        !.steps = <<"isready">>,
                                        !.fen = InitialFen]]
          /\ UNCHANGED <<clicks, exchanged>>
          /\ microQ' = AwaitReady(microQ, FreeSlot)
          /\ UNCHANGED <<gameVars, navVars, outVars, genVars, bestResolver,
                         infoHandler, engineBusy, effVars, engineReady, elo>>

MaxGeneration == 2 \* generations handed out before the request under test

\* `requestId` is undefined: the caller passes no generation token.
NoRequestId == 0

\* Reply lines outside the exchange the application has asked for: an empty
\* line, an `id name ...` line, an info line without the ranked fields, a
\* ranked info line and a `bestmove` line.
MessageLines ==
  {[prefix |-> p, body |-> CHOOSE l \in InfoLines : ~l.match, word |-> ""] :
     p \in {"", "id"}}
  \cup {[prefix |-> "info", body |-> l, word |-> ""] :
          l \in {i \in InfoLines : ~i.match \/ (i.multipv = 2 /\ i.value = 3)}}
  \cup {[prefix |-> "bestmove",
          body |-> CHOOSE l \in InfoLines : ~l.match, word |-> "d2d4"]}

\* requestMultiSuggestions(fen, 3, requestId) called while the counter is at
\* current; a token that was handed out is at least 1 and at most current.
\* text is a reply line the worker posts at some moment of the request.
RankedProbes ==
  UNION {{[op |-> "ranked", token |-> r, current |-> c, begun |-> FALSE,
            result |-> "pending", text |-> l, handled |-> FALSE] :
            r \in 0..c, l \in MessageLines} : c \in 0..MaxGeneration}

\* Faulty variant: the generation is not compared before the request starts.
PreemptedAtStart_Never(requestId) == FALSE

\* `requestId !== undefined && analysisRequestIdRef.current !== requestId`
PreemptedAtStart(requestId) ==
  requestId # NoRequestId /\ analysisRequestId # requestId

\* requestMultiSuggestions(fen, 3, requestId) from the call to its first
\* await, with a transport.
StartRanked ==
  /\ probe.op = "ranked"
  /\ ~probe.begun
  /\ IF PreemptedAtStart(probe.token)
     THEN /\ probe' = [probe EXCEPT !.begun = TRUE, !.result = "empty list"]
          /\ UNCHANGED appVars
     ELSE /\ probe' = [probe EXCEPT !.begun = TRUE]
          /\ readyResolvers' = Append(readyResolvers, FreeSlot)
          /\ eng' = sendEngine(eng, <<Cmd("isready", 0)>>)
          /\ tasks' = [tasks EXCEPT ![FreeSlot] =
                         [NoTask EXCEPT !.kind = "call",
                                        !.pc = "ready_ms1",
                                        !.steps = <<"isready">>,
                                        !.rid = probe.token,
                                        !.fen = InitialFen]]
          /\ microQ' = AwaitReady(microQ, FreeSlot)
          /\ UNCHANGED <<clicks, exchanged>>
          /\ UNCHANGED <<gameVars, navVars, outVars, genVars, bestResolver,
                         infoHandler, engineBusy, effVars, engineReady, elo>>

\* worker.onmessage(line) for the line of the probe, whatever the
\* application is waiting for.
OnMessage ==
  /\ probe.op = "ranked"
  /\ ~probe.handled
  /\ Quiet
  /\ probe' = [probe EXCEPT !.handled = TRUE]
  /\ LET line == probe.text
     IN CASE line.prefix = "info" /\ infoHandler # 0 ->
               /\ tasks' = [tasks EXCEPT ![infoHandler].sugg =
                              InfoHandle(@, line.body, tasks[infoHandler].fen)]
               /\ UNCHANGED <<microQ, bestResolver, infoHandler>>
          [] line.prefix = "bestmove" ->
               /\ IF bestResolver = 0
                  THEN UNCHANGED schedVars
                  ELSE /\ tasks' = [tasks EXCEPT
                                    ![bestResolver].line =
                                      ParseBestMove(<<"bestmove", line.word>>),
                                    ![bestResolver].steps =
                                      Append(@, "bestmove")]
                       /\ microQ' = Append(microQ, bestResolver)
               /\ bestResolver' = 0
               /\ infoHandler' = 0
          [] OTHER -> UNCHANGED <<schedVars, bestResolver, infoHandler>>
  /\ UNCHANGED <<clicks, exchanged>>
  /\ UNCHANGED <<gameVars, navVars, outVars, genVars, readyResolvers,
                 engineBusy, effVars, engineReady, elo, eng>>

\* The application's own steps of a ranked request under test.
RankedSteps ==
  /\ probe.op = "ranked"
  /\ \/ OnUciOk
     \/ OnReadyOk
     \/ StrengthEffect
     \/ AnalysisFenEffect
     \/ OnInfo
     \/ OnBestMove
     \/ \E t \in Slots : MultiGo(t)
     \/ \E t \in Slots : MultiDone(t)
     \/ \E t \in Slots : MultiReset(t)

MaxMoves == 3      \* moves of a history handed to the timeline helpers

\* The moves of the reduced game and one move that is never legal.
HistoryMoves == SeqToSet(WhiteMoves) \cup SeqToSet(BlackMoves) \cup {"e2e5"}

Histories == SeqsUpTo(HistoryMoves, MaxMoves)

TimelineProbes ==
  {[op |-> "timeline", moves |-> h, built |-> FALSE, raised |-> FALSE,
    entries |-> <<>>] : h \in Histories}

\* Every move of the history is legal where it is played.
RECURSIVE AllLegalFrom(_, _)
AllLegalFrom(pos, moves) ==
  \/ moves = <<>>
  \/ /\ IsLegal(pos, Head(moves))
     /\ AllLegalFrom(Append(pos, Head(moves)), Tail(moves))

\* buildAnalysisEntriesFromVerbose(moves).  A refused move is reported by the
\* rules library either with a null result or with an exception, which the
\* function does not catch.
ApplyBuild ==
  /\ probe.op = "timeline"
  /\ ~probe.built
  /\ \E throws \in BOOLEAN :
       IF throws /\ ~AllLegalFrom(InitialFen, probe.moves)
       THEN probe' = [probe EXCEPT !.built = TRUE, !.raised = TRUE]
       ELSE probe' = [probe EXCEPT
                        !.built = TRUE,
                        !.entries = buildAnalysisEntriesFromVerbose(probe.moves)]
  /\ UNCHANGED appVars

SanitizeProbes ==
  {[op |-> "sanitize", history |-> h, cleaned |-> FALSE, threw |-> FALSE,
    sanitized |-> <<>>, replay |-> NoFen] : h \in Histories}

\* sanitizeVerboseHistory(history)
ApplySanitize ==
  /\ probe.op = "sanitize"
  /\ ~probe.cleaned
  /\ LET out == sanitizeVerboseHistory(probe.history)
     IN probe' = [probe EXCEPT !.cleaned = TRUE,
                               !.sanitized = out.sanitized,
                               !.replay = out.replay]
  /\ UNCHANGED appVars

MinRating == 500   \* lowest rating handed to the strength helpers
MaxRating == 2900  \* highest rating handed to the strength helpers

Ratings == MinRating..MaxRating

BlunderProbes ==
  {[op |-> "blunder", rating |-> r, computed |-> FALSE, prob |-> 0] :
     r \in Ratings}

\* computeBlunderProbability(rating)
ApplyBlunder ==
  /\ probe.op = "blunder"
  /\ ~probe.computed
  /\ probe' = [probe EXCEPT !.computed = TRUE,
                            !.prob = computeBlunderProbability(probe.rating)]
  /\ UNCHANGED appVars

SkillProbes ==
  {[op |-> "skill", elo |-> r, levelled |-> FALSE, level |-> 0] :
     r \in Ratings}

\* computeSkillLevel(elo)
ApplySkill ==
  /\ probe.op = "skill"
  /\ ~probe.levelled
  /\ probe' = [probe EXCEPT !.levelled = TRUE,
                            !.level = computeSkillLevel(probe.elo)]
  /\ UNCHANGED appVars

\* get_analysis_state at every index of the timeline of every legal game.
StateProbes ==
  UNION {{[op |-> "state", played |-> h, at |-> i, told |-> FALSE,
            lastMove |-> "", nextMove |-> ""] : i \in 0..Len(h)} :
           h \in {g \in Histories : AllLegalFrom(InitialFen, g)}}

\* `move?.san || 'None'`
SanOrNone(move) == IF move = NoMove THEN "None" ELSE move

\* The get_analysis_state tool: `entry = entries[index]`,
\* `prevEntry = index > 0 ? entries[index - 1] : null`,
\* `lastMove: prevEntry?.playedMove?.san || 'None'`,
\* `nextMove: entry?.playedMove?.san || 'None'` (entries are 0-based there).
getAnalysisState(entries, index) ==
  [lastMove |-> IF index > 0 THEN SanOrNone(entries[index].playedMove)
                ELSE "None",
   nextMove |-> SanOrNone(entries[index + 1].playedMove)]

\* handleSendMessage answering a get_analysis_state tool call.
ApplyState ==
  /\ probe.op = "state"
  /\ ~probe.told
  /\ LET result == getAnalysisState(buildAnalysisEntries(probe.played),
                                     probe.at)
     IN probe' = [probe EXCEPT !.told = TRUE,
                               !.lastMove = result.lastMove,
                               !.nextMove = result.nextMove]
  /\ UNCHANGED appVars

\* applyEngineStrength for every rating of the range under test.
StrengthProbes ==
  {[op |-> "strength", strength |-> r, applied |-> FALSE, posted |-> <<>>] :
     r \in Ratings}

\* applyEngineStrength(rating): the commands are posted to the worker.
ApplyStrength ==
  /\ probe.op = "strength"
  /\ ~probe.applied
  /\ probe' = [probe EXCEPT !.applied = TRUE,
                            !.posted = applyEngineStrength(probe.strength)]
  /\ eng' = sendEngine(eng, applyEngineStrength(probe.strength))
  /\ UNCHANGED <<clicks, exchanged>>
  /\ UNCHANGED <<gameVars, navVars, outVars, refVars, genVars, schedVars,
                 effVars, engineReady, elo>>

\* Notation.  A move in UCI form and a move in standard notation are
\* sequences of characters.  The positions are the ones of the helper's
\* tests: the initial position, one where a7 captures on b8 and promotes, one
\* where White may castle short, and a string that is no position.
SanPositions == {"start", "promotion", "castling", "invalid-fen"}

Mv(from, to, promotion, san) ==
  [from |-> from, to |-> to, promotion |-> promotion, san |-> san]

\* chess.moves({verbose: true}) of the position, reduced to a few moves.
VerboseMoves(fen) ==
  CASE fen = "start" ->
         {Mv(<<"e", "2">>, <<"e", "4">>, "undefined", <<"e", "4">>),
          Mv(<<"g", "1">>, <<"f", "3">>, "undefined", <<"N", "f", "3">>)}
    [] fen = "promotion" ->
         {Mv(<<"a", "7">>, <<"b", "8">>, "q",
             <<"a", "x", "b", "8", "=", "Q">>),
          Mv(<<"a", "7">>, <<"b", "8">>, "n",
             <<"a", "x", "b", "8", "=", "N">>),
          Mv(<<"h", "1">>, <<"g", "1">>, "undefined", <<"K", "g", "1">>)}
    [] fen = "castling" ->
         {Mv(<<"e", "1">>, <<"g", "1">>, "undefined", <<"O", "-", "O">>),
          Mv(<<"e", "1">>, <<"e", "2">>, "undefined", <<"K", "e", "2">>)}
    [] OTHER -> {}

\* `uci.slice(a, b)`
Slice(uci, a, b) == SubSeq(uci, a + 1, Min(b, Len(uci)))

\* `uci[4]`
CharAt(uci, i) == IF i < Len(uci) THEN uci[i + 1] ELSE "undefined"

\* new Chess(fen) followed by chess.move({from, to, promotion}): the move
\* made, or no move (a null result or an exception, as the library has it).
MoveOf(fen, from, to, promotion) ==
  LET found == {mv \in VerboseMoves(fen) :
                  mv.from = from /\ mv.to = to /\ mv.promotion = promotion}
  IN IF found = {} THEN [made |-> FALSE, san |-> <<>>]
     ELSE [made |-> TRUE, san |-> (CHOOSE mv \in found : TRUE).san]

\* Faulty variant: the move comes back as it was given.
uciToSan_Echo(fen, uci) == uci

\* `try { ... return move?.san ?? uci } catch { return uci }`
uciToSan(fen, uci) ==
  LET move == MoveOf(fen, Slice(uci, 0, 2), Slice(uci, 2, 4), CharAt(uci, 4))
  IN IF move.made THEN move.san ELSE uci

UciMoves ==
  {<<"e", "2", "e", "4">>, <<"g", "1", "f", "3">>, <<"e", "2", "e", "5">>,
   <<"a", "7", "b", "8", "q">>, <<"a", "7", "b", "8", "n">>,
   <<"a", "7", "b", "8">>, <<"h", "1", "g", "1">>, <<"e", "1", "g", "1">>,
   <<"e", "1", "e", "2">>, <<"e", "2">>, <<>>}

SanProbes ==
  {[op |-> "san", position |-> f, uciMove |-> u, converted |-> FALSE,
    text |-> <<>>] : f \in SanPositions, u \in UciMoves}

\* uciToSan(fen, uci)
ApplySan ==
  /\ probe.op = "san"
  /\ ~probe.converted
  /\ probe' = [probe EXCEPT !.converted = TRUE,
                            !.text = uciToSan(probe.position, probe.uciMove)]
  /\ UNCHANGED appVars

\* The game-over texts, as sequences of words; NullText stands for null.
NullText == <<>>

\* What buildGameOverText returns for a finished game.
GameOverTexts ==
  {<<"White", "wins", "by", "checkmate">>,
   <<"Black", "wins", "by", "checkmate">>,
   <<"Stalemate">>, <<"Draw", "by", "repetition">>,
   <<"Draw", "(insufficient", "material)">>, <<"Draw">>}

\* `text.includes(phrase)`
Includes(text, phrase) ==
  \E i \in 1..(Len(text) - Len(phrase) + 1) :
    SubSeq(text, i, i + Len(phrase) - 1) = phrase

\* Faulty variant: the winner is not looked at.
getGameOverTitle_Plain(text, colour) ==
  IF text = NullText THEN "" ELSE "Game Over"

getGameOverTitle(text, colour) ==
  LET isWhite == colour = "white"
  IN IF text = NullText THEN ""
     ELSE IF isWhite /\ Includes(text, <<"White", "wins">>) THEN "You Win!"
     ELSE IF ~isWhite /\ Includes(text, <<"Black", "wins">>) THEN "You Win!"
     ELSE IF isWhite /\ Includes(text, <<"Black", "wins">>) THEN "You Lost"
     ELSE IF ~isWhite /\ Includes(text, <<"White", "wins">>) THEN "You Lost"
     ELSE "Game Over"

TitleProbes ==
  {[op |-> "title", gameOver |-> g, playerColor |-> c, titled |-> FALSE,
    title |-> ""] :
     g \in GameOverTexts \cup {NullText}, c \in {"white", "black"}}

\* getGameOverTitle(gameOver, playerColor)
ApplyTitle ==
  /\ probe.op = "title"
  /\ ~probe.titled
  /\ probe' = [probe EXCEPT
                 !.titled = TRUE,
                 !.title = getGameOverTitle(probe.gameOver,
                                            probe.playerColor)]
  /\ UNCHANGED appVars

\* A position with two legal moves, one with a single legal move and one
\* with none.
PickPositions == {InitialFen, <<"e2e4">>, <<"e2e4", "e7e5">>}

\* The best-first lists of zero to three suggestions.
PickOptions ==
  {SubSeq(<<[uci |-> PvOf(1), score |-> 50, src |-> InitialFen],
            [uci |-> PvOf(2), score |-> 30, src |-> InitialFen],
            [uci |-> PvOf(3), score |-> 10, src |-> InitialFen]>>, 1, n) :
     n \in 0..3}

\* The blunder probabilities of three ratings, and the two ends of [0, 1].
PickProbabilities ==
  {computeBlunderProbability(r) : r \in {600, 1100, 1600}} \cup {0, ProbUnit}

PickProbes ==
  {[op |-> "pick", fen |-> f, options |-> o, blunderProb |-> bp,
    rand |-> r, rand2 |-> r2, picked |-> FALSE, uci |-> ""] :
     f \in PickPositions, o \in PickOptions, bp \in PickProbabilities,
     r \in Draws, r2 \in Draws}

\* pickMoveWithBlunder(fen, options, blunderProb)
ApplyPick ==
  /\ probe.op = "pick"
  /\ ~probe.picked
  /\ probe' = [probe EXCEPT
                 !.picked = TRUE,
                 !.uci = pickMoveWithBlunder(probe.fen, probe.options,
                                             probe.blunderProb, probe.rand,
                                             probe.rand2)]
  /\ UNCHANGED appVars

ProbeInputs ==
  BestMoveProbes \cup RankProbes \cup CallProbes \cup TimelineProbes
    \cup SanitizeProbes \cup BlunderProbes \cup SkillProbes
    \cup PickProbes \cup SanProbes \cup TitleProbes \cup RankedProbes
    \cup StrengthProbes \cup StateProbes

\* The generation the counter is at when the helper under test is called.
GenerationOf(p) == IF p.op = "ranked" THEN p.current ELSE 0

InitPure == probe \in ProbeInputs /\ AppInitAt(GenerationOf(probe))

NextPure ==
  \/ ApplyBestMove
  \/ ApplyRank
  \/ StartCall
  \/ ApplyBuild
  \/ ApplySanitize
  \/ ApplyBlunder
  \/ ApplySkill
  \/ ApplyPick
  \/ ApplySan
  \/ ApplyTitle
  \/ StartRanked
  \/ OnMessage
  \/ RankedSteps
  \/ ApplyStrength
  \/ ApplyState

SpecPure == InitPure /\ [][NextPure]_vars

\* ------------------------------------------------------------------ claims
\* The next continuation to run is one of call t.
AtHead(t) == microQ # <<>> /\ Head(microQ) = t

\* The step taken is a continuation of call t.
StepOf(t) == AtHead(t) /\ tasks'[t] # tasks[t]

\* The engine owes no reply and the application has nothing left to run.
NothingPending ==
  /\ microQ = <<>>
  /\ ~strengthEffectDue
  /\ ~fenEffectDue
  /\ ~EngineMoveDue
  /\ eng.uciok
  /\ eng.pendingReady = 0
  /\ eng.searches = <<>>
  /\ \A t \in Slots : tasks[t].pc = "poll" => engineBusy

\* C1: at most one `go` is outstanding: the engine never holds two searches
\* whose `bestmove` has not been delivered.
C1_OneGoOutstanding == Len(eng.searches) <= 1

\* C2: after loadSuggestions(B) was called for the position on the analysis
\* board, a call for another position A that is still in progress does not
\* set the current suggestions when it finishes.
C2_PreemptedNeverPublished ==
  [][\A t \in Slots :
       (/\ StepOf(t)
        /\ tasks[t].kind = "load"
        /\ ~tasks[t].old
        /\ analysisMode
        /\ analysisBoardFen # NoFen
        /\ tasks[t].fen # analysisBoardFen)
       => analysisSuggestions' = analysisSuggestions]_vars

\* C3: a step of a loadSuggestions call whose generation is no longer the
\* current one leaves the current suggestions, the error and the loading flag
\* as they are.
C3_StaleNeverWrites ==
  [][\A t \in Slots :
       (/\ StepOf(t)
        /\ tasks[t].kind = "load"
        /\ tasks[t].rid # analysisRequestId)
       => UNCHANGED outVars]_vars

\* C3 witness: a call whose generation has passed is about to return with a
\* non-empty list for the position that was last requested.
C3_Witness ==
  \E t \in Slots :
    /\ AtHead(t)
    /\ tasks[t].kind = "load"
    /\ tasks[t].pc = "ms_ret"
    /\ tasks[t].rid # analysisRequestId
    /\ tasks[t].ret # <<>>
    /\ tasks[t].fen = lastRequestedFen

\* C4: between two tasks of the event loop, engineBusy is true exactly when a
\* `go` was sent whose `bestmove` has not been received.
C4_BusyIffGoOutstanding ==
  microQ = <<>> => (engineBusy <=> eng.searches # <<>>)

\* C5: the move returned by a request that was made before startNewGame is
\* not played on the board of the new game.
C5_OldMoveNotApplied ==
  [][\A t \in Slots :
       (/\ StepOf(t)
        /\ tasks[t].kind = "move"
        /\ tasks[t].old)
       => game' = game]_vars

\* C6: a loadSuggestions call that began before the cache was cleared by
\* startNewGame or leaveAnalysisMode neither inserts its result into the
\* cache nor publishes it as the current suggestions.
C6_ClearedCacheStaysClean ==
  [][\A t \in Slots :
       (/\ StepOf(t)
        /\ tasks[t].kind = "load"
        /\ tasks[t].old)
       => /\ analysisCache' = analysisCache
          /\ analysisSuggestions' = analysisSuggestions]_vars

\* The step taken is a call loadAnalysisSuggestions(fen) made with the cache
\* as it is: by goToAnalysisIndex or by the analysisBoardFen effect.
LoadCall(fen) ==
  \/ /\ \E n \in -1..(MaxPly + 1) : goToAnalysisIndex(n)
     /\ analysisMode
     /\ analysisBoardFen' = fen
  \/ /\ AnalysisFenEffect
     /\ analysisMode
     /\ analysisBoardFen = fen

\* C7: a call of loadSuggestions(P) with P in the cache publishes the cached
\* list, clears the loading flag, sends nothing to the engine and leaves the
\* generation counter, engineBusy and the cache as they are.
C7_CacheHitFrame ==
  [][\A fen \in DOMAIN analysisCache :
       LoadCall(fen)
       => /\ analysisSuggestions' = analysisCache[fen]
          /\ analysisLoading' = FALSE
          /\ eng' = eng
          /\ analysisRequestId' = analysisRequestId
          /\ engineBusy' = engineBusy
          /\ analysisCache' = analysisCache]_vars

\* C7 witness: goToAnalysisIndex has just served the position it moved to
\* from the cache, and the analysisBoardFen effect is about to ask for it
\* again.
C7_Witness ==
  /\ analysisMode
  /\ fenEffectDue
  /\ analysisBoardFen \in DOMAIN analysisCache
  /\ analysisSuggestions = analysisCache[analysisBoardFen]
  /\ analysisSuggestions # <<>>
  /\ ~analysisLoading

\* C8 as stated: a position is searched for loadSuggestions at most once
\* between two cache clears.
C8_ExchangedAtMostOnce ==
  [][\A t \in Slots :
       (/\ StepOf(t)
        /\ tasks[t].kind = "load"
        /\ tasks[t].pc = "ready_ms1"
        /\ tasks[t].rid = analysisRequestId)
       => tasks[t].fen \notin exchanged]_vars

\* C8 amended: once a loadSuggestions call has stored the list of a position,
\* until the next cache clear the stored list does not change, no search is
\* started for that position, and a call for it publishes the stored list
\* without starting a request.
C8_StoredOnceThenServed ==
  [][/\ \A fen \in DOMAIN analysisCache :
          /\ fen \in DOMAIN analysisCache'
               => analysisCache'[fen] = analysisCache[fen]
          /\ LoadCall(fen)
               => /\ analysisSuggestions' = analysisCache[fen]
                  /\ tasks' = tasks
                  /\ readyResolvers' = readyResolvers
     /\ \A t \in Slots :
          (/\ StepOf(t)
           /\ tasks[t].kind = "load"
           /\ tasks[t].pc = "ready_ms1"
           /\ tasks[t].rid = analysisRequestId)
          => tasks[t].fen \notin DOMAIN analysisCache]_vars

\* C8 witness: two positions were searched and stored, and a call for the
\* one on the board has just been served its stored list.
C8_Witness ==
  /\ analysisMode
  /\ fenEffectDue
  /\ Cardinality(DOMAIN analysisCache) >= 2
  /\ DOMAIN analysisCache \subseteq exchanged
  /\ analysisBoardFen \in DOMAIN analysisCache
  /\ analysisSuggestions = analysisCache[analysisBoardFen]
  /\ \A t \in Slots : tasks[t].kind # "load"

\* C9: a `readyok` calls every resolver that is waiting, in order, and leaves
\* the resolver list empty.
C9_ReadyOkReleasesAll ==
  [][eng'.pendingReady < eng.pendingReady
       => /\ readyResolvers' = <<>>
          /\ microQ' = microQ \o readyResolvers]_vars

\* C9 witness: one `readyok` has released two waiting calls.
C9_Witness ==
  /\ Len(microQ) >= 2
  /\ readyResolvers = <<>>
  /\ microQ[1] # microQ[2]
  /\ \A i \in 1..2 :
       tasks[microQ[i]].pc \in {"ready_bm", "ready_ms1", "ready_ms2"}

\* C10: when the engine has answered every `isready` and every `go` and the
\* application has nothing left to run, every loadSuggestions call has
\* returned and the loading flag is false.
C10_LoadsSettle ==
  NothingPending
    => /\ \A t \in Slots : tasks[t].kind # "load"
       /\ ~analysisLoading

\* C11: whenever requestBestMove sends its `go`, the last MultiPV value sent
\* to the engine is 1.
\* (Stated for a requestBestMove that is the only call in progress, with no
\* search outstanding.)
C11_SingleBestAfterReset ==
  [][\A t \in Slots :
       (/\ StepOf(t)
        /\ tasks[t].pc = "ready_bm"
        /\ eng.searches = <<>>
        /\ \A u \in Slots \ {t} : tasks[u].kind = "none")
       => eng.multipv = 1]_vars

\* C12: requestBestMove returns null when the bestmove line has no move
\* token or reports `(none)`, and the move token of the line otherwise.
C12_NullWhenNoMove ==
  (probe.op = "bestmove" /\ probe.done)
    => IF Len(probe.line) < 2 \/ probe.line[2] = "(none)"
       THEN probe.move = "null"
       ELSE probe.move = probe.line[2]

\* The info lines of the ranked request under test that matched, and the
\* last of them for a rank.
Matched == {i \in DOMAIN probe.lines : probe.lines[i].match}

LastFor(k) ==
  CHOOSE i \in Matched :
    /\ probe.lines[i].multipv = k
    /\ \A j \in Matched : probe.lines[j].multipv = k => j <= i

ReceivedRanks == {probe.lines[i].multipv : i \in Matched}

\* The rank a returned suggestion was reported under.
RankOf(s) == CHOOSE k \in Ranks : PvOf(k) = s.uci

\* C13: the list returned by a ranked request holds exactly one suggestion
\* for every rank that was received, none for the others, in descending
\* order of score, equal scores in rank order.
C13_CompactedSortedStable ==
  (probe.op = "rank" /\ probe.done)
    => /\ Len(probe.list) = Cardinality(ReceivedRanks)
       /\ {s.uci : s \in SeqToSet(probe.list)}
            = {PvOf(k) : k \in ReceivedRanks}
       /\ \A i, j \in DOMAIN probe.list :
            i < j => \/ probe.list[i].score > probe.list[j].score
                     \/ /\ probe.list[i].score = probe.list[j].score
                        /\ RankOf(probe.list[i]) < RankOf(probe.list[j])

\* C13 witness: ranks 1 and 3 were received with rank 3 scoring higher, rank
\* 2 was not, and the list of two was returned.
C13_Witness ==
  /\ probe.op = "rank"
  /\ probe.done
  /\ ReceivedRanks = {1, 3}
  /\ Len(probe.list) = 2
  /\ probe.list[1].uci = PvOf(3)

\* C14: a mate score counts by its sign only: a mating line is returned with
\* score 100000 and before every centipawn line, a line being mated with
\* score -100000 and after every centipawn line.
C14_MateBySign ==
  (probe.op = "rank" /\ probe.done)
    => \A i \in DOMAIN probe.list :
         LET li == probe.lines[LastFor(RankOf(probe.list[i]))]
         IN /\ (li.type = "mate" /\ li.value > 0)
                 => probe.list[i].score = 100000
            /\ (li.type = "mate" /\ li.value < 0)
                 => probe.list[i].score = -100000
            /\ \A j \in DOMAIN probe.list :
                 LET lj == probe.lines[LastFor(RankOf(probe.list[j]))]
                 IN (li.type = "mate" /\ lj.type = "cp")
                      => IF li.value > 0 THEN i < j ELSE j < i

\* C14 witness: mate in 3 reported under rank 3 is returned ahead of a
\* centipawn line, which is ahead of a line being mated in 2.
C14_Witness ==
  /\ probe.op = "rank"
  /\ probe.done
  /\ Len(probe.list) = 3
  /\ probe.list[1].score = 100000
  /\ probe.list[1].uci = PvOf(3)
  /\ probe.lines[LastFor(3)].value = 3
  /\ probe.list[2].score = 50
  /\ probe.list[3].score = -100000

\* C15: once a `position` or a `go` has been sent to the engine, `ucinewgame`
\* has been sent to it exactly once.
C15_NewGameBeforeFirstUse == eng.used => eng.newgames = 1

\* C16: a call of waitForReady, requestBestMove or requestMultiSuggestions
\* made without a transport settles at once (resolved, null, empty list) and
\* sends no command, registers no resolver and leaves engineBusy unset.
C16_NoTransportNoEffect ==
  [][(probe.op = "call" /\ probe.worker = "null" /\ probe' # probe)
       => /\ probe'.outcome = NoWorkerOutcome(probe.fn)
          /\ eng' = eng
          /\ readyResolvers' = readyResolvers
          /\ bestResolver' = bestResolver
          /\ engineBusy' = FALSE]_vars

C16_Witness ==
  /\ probe.op = "call"
  /\ probe.worker = "null"
  /\ probe.fn = "requestBestMove"
  /\ probe.started
  /\ probe.outcome = "null"
  /\ readyResolvers = <<>>

\* The timeline of a legal history has been built.
BuiltLegal ==
  /\ probe.op = "timeline"
  /\ probe.built
  /\ AllLegalFrom(InitialFen, probe.moves)

\* C17: the timeline of a legal history of K moves has exactly K+1 entries,
\* their moveIndex fields are 0, 1, ..., K in order, the first entry has no
\* playedMove and the last has no nextMove.
C17_EntriesCountAndIndex ==
  BuiltLegal
    => LET K == Len(probe.moves)
       IN /\ ~probe.raised
          /\ Len(probe.entries) = K + 1
          /\ \A i \in 0..K : probe.entries[i + 1].moveIndex = i
          /\ probe.entries[1].playedMove = NoMove
          /\ probe.entries[K + 1].nextMove = NoMove

C17_Witness ==
  /\ BuiltLegal
  /\ Len(probe.moves) = 2
  /\ Len(probe.entries) = 3
  /\ probe.entries[3].moveIndex = 2

\* C18: in the timeline of a legal history of K moves, for every i in [0, K)
\* entry i has a nextMove, it is the playedMove of entry i+1, and it is move i
\* of the history.
C18_NextIsPlayedOfNext ==
  BuiltLegal
    => \A i \in 0..(Len(probe.moves) - 1) :
         /\ i + 2 <= Len(probe.entries)
         /\ probe.entries[i + 1].nextMove # NoMove
         /\ probe.entries[i + 1].nextMove = probe.entries[i + 2].playedMove
         /\ probe.entries[i + 1].nextMove = probe.moves[i + 1]

C18_Witness ==
  /\ BuiltLegal
  /\ probe.moves = <<"d2d4", "e7e5">>
  /\ probe.entries[1].nextMove = "d2d4"
  /\ probe.entries[2].playedMove = "d2d4"
  /\ probe.entries[2].nextMove = "e7e5"

\* The position reached by playing the moves one after the other from the
\* initial position.
RECURSIVE Replay(_)
Replay(moves) ==
  IF moves = <<>> THEN InitialFen
  ELSE Append(Replay(SubSeq(moves, 1, Len(moves) - 1)), moves[Len(moves)])

\* C19: in the timeline of a legal history of K moves, for every i in 0..K
\* the position of entry i is the one reached by replaying the first i moves
\* from the initial position.
C19_FenIsReplayOfPrefix ==
  BuiltLegal
    => /\ Len(probe.entries) = Len(probe.moves) + 1
       /\ \A i \in 0..Len(probe.moves) :
            probe.entries[i + 1].fen = Replay(SubSeq(probe.moves, 1, i))

C19_Witness ==
  /\ BuiltLegal
  /\ Len(probe.moves) = 2
  /\ probe.entries[1].fen = InitialFen
  /\ probe.entries[2].fen = <<"e2e4">>
  /\ probe.entries[3].fen = Replay(probe.moves)

\* The length of the longest prefix of the history whose moves are all legal.
LegalPrefixLen(moves) ==
  CHOOSE n \in 0..Len(moves) :
    /\ AllLegalFrom(InitialFen, SubSeq(moves, 1, n))
    /\ \A k \in (n + 1)..Len(moves) :
         ~AllLegalFrom(InitialFen, SubSeq(moves, 1, k))

\* C20: sanitizeVerboseHistory returns the longest legal prefix of the
\* history, its replay stands at the position after that prefix, no error is
\* raised, and an all-legal history comes back whole.
C20_LongestLegalPrefix ==
  (probe.op = "sanitize" /\ probe.cleaned)
    => LET n == LegalPrefixLen(probe.history)
       IN /\ ~probe.threw
          /\ probe.sanitized = SubSeq(probe.history, 1, n)
          /\ probe.replay = Replay(SubSeq(probe.history, 1, n))
          /\ AllLegalFrom(InitialFen, probe.history)
               => /\ Len(probe.sanitized) = Len(probe.history)
                  /\ probe.replay = Replay(probe.history)

C20_Witness ==
  /\ probe.op = "sanitize"
  /\ probe.cleaned
  /\ probe.history = <<"e2e4", "e2e5", "e7e5">>
  /\ probe.sanitized = <<"e2e4">>
  /\ probe.replay = <<"e2e4">>

\* C21: the timeline of a history holding a move the rules refuse is not
\* built: an error is raised to the caller and no entry is returned.
C21_RefusedMoveRaises ==
  (probe.op = "timeline" /\ probe.built
     /\ ~AllLegalFrom(InitialFen, probe.moves))
    => probe.raised /\ probe.entries = <<>>

\* C22: the current index of a timeline shown in analysis mode lies within
\* [0, length-1]; goToAnalysisIndex(n) in analysis mode sets it to n clamped
\* into that range, shows the position of that entry and calls
\* loadAnalysisSuggestions for it (served from the cache, or asked for under
\* a new generation); outside analysis mode it changes nothing and sends
\* nothing.
C22_NavigateClamped ==
  /\ [](analysisMode /\ analysisEntries # <<>>
          => analysisIndex \in 0..(Len(analysisEntries) - 1))
  /\ [][\A n \in -1..(MaxPly + 1) :
          goToAnalysisIndex(n)
          => IF analysisMode /\ analysisEntries # <<>>
             THEN LET last == Len(analysisEntries) - 1
                      idx == IF n < 0 THEN 0 ELSE IF n > last THEN last ELSE n
                      fen == analysisEntries[idx + 1].fen
                  IN /\ analysisIndex' = idx
                     /\ analysisBoardFen' = fen
                     /\ IF fen \in DOMAIN analysisCache
                        THEN /\ analysisSuggestions' = analysisCache[fen]
                             /\ ~analysisLoading'
                             /\ eng' = eng
                        ELSE /\ lastRequestedFen' = fen
                             /\ analysisRequestId' = analysisRequestId + 1
                             /\ analysisLoading'
                             /\ \E t \in Slots :
                                  /\ tasks[t].kind = "none"
                                  /\ tasks'[t].kind = "load"
                                  /\ tasks'[t].fen = fen
             ELSE UNCHANGED <<gameVars, navVars, outVars, refVars, genVars,
                              schedVars, effVars, engineReady, elo, eng>>]_vars

C22_Witness ==
  /\ analysisMode
  /\ Len(analysisEntries) = 3
  /\ analysisIndex = 2
  /\ analysisBoardFen = analysisEntries[3].fen
  /\ lastRequestedFen = analysisEntries[3].fen

\* C23: the blunder probability (in units of 1/4000) is 0.02 from rating 1600
\* on and 0.05 + 0.75 * clamp((1600 - rating) / 1000, 0, 1) below it (0.425
\* at 1100, 0.80 at 600 and below); it lies within [0, 1] and no higher
\* rating has a larger one.
C23_BlunderProbability ==
  (probe.op = "blunder" /\ probe.computed)
    => LET r == probe.rating
           below == IF 1600 - r > 1000 THEN 1000 ELSE 1600 - r
       IN /\ r >= 1600 => probe.prob = 80
          /\ r < 1600 => probe.prob = 200 + 3 * below
          /\ r = 1100 => probe.prob = 1700
          /\ r <= 600 => probe.prob = 3200
          /\ probe.prob \in 0..4000
          /\ \A higher \in Ratings :
               higher > r => computeBlunderProbability(higher) <= probe.prob

C23_Witness ==
  /\ probe.op = "blunder"
  /\ probe.computed
  /\ probe.rating = 1100
  /\ probe.prob = 1700

\* C24: the skill level is round(20 * (rating - 600) / 2200) clamped into
\* [0, 20]: an integer of 0..20, 0 up to rating 600, 20 from 2800 on, 10 at
\* 1700, and no higher rating has a lower one.
C24_SkillLevel ==
  (probe.op = "skill" /\ probe.levelled)
    => LET r == probe.elo
           v == probe.level
       IN /\ v \in 0..20
          /\ r <= 600 => v = 0
          /\ r >= 2800 => v = 20
          /\ r = 1700 => v = 10
          /\ (r >= 600 /\ r <= 2800)
               => /\ 2200 * (2 * v - 1) <= 40 * (r - 600)
                  /\ 40 * (r - 600) < 2200 * (2 * v + 1)
          /\ \A higher \in Ratings :
               higher > r => computeSkillLevel(higher) >= v

C24_Witness ==
  /\ probe.op = "skill"
  /\ probe.levelled
  /\ probe.elo = 1700
  /\ probe.level = 10

\* C25: for every position, best-first list s, blunder probability p and
\* draw r, the weakened pick is a legal move of the position if r < 0.4 p and
\* the position has a legal move; otherwise, if r < p and s has two entries
\* or more, the last of the top three when r < 0.7 p and s has three entries,
\* and the second-best otherwise; otherwise the best suggestion (none when s
\* is empty).
C25_LayeredPick ==
  (probe.op = "pick" /\ probe.picked)
    => LET s == probe.options
           r == probe.rand
           p == probe.blunderProb
       IN IF 10 * r < 4 * p /\ LegalMoves(probe.fen) # <<>>
          THEN IsLegal(probe.fen, probe.uci)
          ELSE IF r < p /\ Len(s) >= 2
          THEN IF 10 * r < 7 * p /\ Len(s) >= 3
               THEN probe.uci = s[3].uci
               ELSE probe.uci = s[2].uci
          ELSE IF s = <<>> THEN probe.uci = "null"
          ELSE probe.uci = s[1].uci

\* C26: a call of requestWeakOrBestMove for a rating whose blunder
\* probability is at most 0.03 (every rating from 1600 on) makes a single
\* requestBestMove and no ranked request; for any other rating it makes
\* exactly one ranked request, of three lines, returns the weakened pick, and
\* calls requestBestMove only when the ranked list came back empty.
C26_ShortcutOrWeakened ==
  /\ [](\A t \in Slots :
          tasks[t].kind = "move"
          => LET a == tasks[t].asked
             IN IF tasks[t].elo >= 1600
                THEN a = <<"best">>
                ELSE /\ computeBlunderProbability(tasks[t].elo) > 120
                     /\ a \in {<<"multi">>, <<"multi", "best">>}
                     /\ a = <<"multi", "best">> => tasks[t].ret = <<>>
                     /\ (a = <<"multi">> /\ tasks[t].pc = "bm_ret")
                          => /\ tasks[t].ret # <<>>
                             /\ \E r, r2 \in Draws :
                                  tasks[t].line =
                                    pickMoveWithBlunder(
                                      tasks[t].fen, tasks[t].ret,
                                      computeBlunderProbability(tasks[t].elo),
                                      r, r2))
  /\ [][\A t \in Slots :
          (tasks[t].kind = "move" /\ MultiGo(t))
          => Len(eng'.searches) > 0
             /\ eng'.searches[Len(eng'.searches)].multipv = 3]_vars

C26_Witness ==
  \E t \in Slots :
    /\ tasks[t].kind = "move"
    /\ tasks[t].elo = 1100
    /\ tasks[t].asked = <<"multi", "best">>
    /\ tasks[t].pc = "bm_ret"

\* The legal moves of a position in UCI form: from, to and the promotion
\* letter, if any, one after the other.
LegalUci(fen) ==
  {mv.from \o mv.to \o (IF mv.promotion = "undefined" THEN <<>>
                        ELSE <<mv.promotion>>) : mv \in VerboseMoves(fen)}

\* C27: uciToSan returns the standard notation of a move that is legal in
\* the position, promotions and castling included, and the move as it was
\* given when it is not legal there or the position is no position.
C27_SanOrEcho ==
  (probe.op = "san" /\ probe.converted)
    => IF probe.uciMove \in LegalUci(probe.position)
       THEN \E mv \in VerboseMoves(probe.position) :
              /\ probe.uciMove = mv.from \o mv.to
                                   \o (IF mv.promotion = "undefined" THEN <<>>
                                       ELSE <<mv.promotion>>)
              /\ probe.text = mv.san
              /\ probe.text # probe.uciMove
       ELSE probe.text = probe.uciMove

C27_Witness ==
  /\ probe.op = "san"
  /\ probe.converted
  /\ probe.position = "promotion"
  /\ probe.uciMove = <<"a", "7", "b", "8", "q">>
  /\ probe.text = <<"a", "x", "b", "8", "=", "Q">>

\* The text says that the given colour has won.
NamesWinner(text, colour) ==
  text = <<(IF colour = "white" THEN "White" ELSE "Black"), "wins", "by",
           "checkmate">>

\* C28: the title is empty when there is no game-over text, 'You Win!'
\* exactly when the text names the player's colour as the winner, 'You Lost'
\* exactly when it names the other colour, and 'Game Over' for every other
\* text.
C28_TitleByWinner ==
  (probe.op = "title" /\ probe.titled)
    => LET own == probe.playerColor
           other == IF own = "white" THEN "black" ELSE "white"
       IN /\ probe.title = "" <=> probe.gameOver = NullText
          /\ probe.title = "You Win!" <=> NamesWinner(probe.gameOver, own)
          /\ probe.title = "You Lost" <=> NamesWinner(probe.gameOver, other)
          /\ probe.title = "Game Over"
               <=> /\ probe.gameOver # NullText
                   /\ ~NamesWinner(probe.gameOver, own)
                   /\ ~NamesWinner(probe.gameOver, other)

C28_Witness ==
  /\ probe.op = "title"
  /\ probe.titled
  /\ probe.playerColor = "black"
  /\ probe.gameOver = <<"White", "wins", "by", "checkmate">>
  /\ probe.title = "You Lost"

\* C29: a loadAnalysisSuggestions call that found the engine busy and sent
\* `stop` sends its next command only when every `go` sent before has been
\* answered by its `bestmove` and engineBusy is false.
C29_WaitsForTerminatingReply ==
  [][\A t \in Slots :
       (/\ tasks[t].kind = "load"
        /\ tasks[t].stopped
        /\ tasks[t].pc = "idle_ok"
        /\ StepOf(t)
        /\ eng' # eng)
       => (eng.searches = <<>> /\ ~engineBusy)]_vars

\* The steps of one request are in protocol order.
InProtocolOrder(steps) ==
  /\ steps # <<>> => steps[1] = "isready"
  /\ \A i \in DOMAIN steps :
       /\ steps[i] = "position"
            => \E j \in 1..(i - 1) :
                 /\ steps[j] = "readyok"
                 /\ \E k \in 1..(j - 1) : steps[k] = "isready"
       /\ steps[i] = "go" => (i > 1 /\ steps[i - 1] = "position")
       /\ steps[i] = "bestmove" => \E g \in 1..(i - 1) : steps[g] = "go"
       /\ steps[i] = "return"
            => \A g \in 1..(i - 1) :
                 steps[g] = "go"
                 => \E b \in (g + 1)..(i - 1) : steps[b] = "bestmove"

\* C30: within one request `isready` is sent, then a `readyok` is received,
\* then `position` is sent, then `go`, and a request that sent `go` returns
\* only after a `bestmove` received after that `go`.
C30_ProtocolOrder ==
  \A t \in Slots : InProtocolOrder(tasks[t].steps)

C30_Witness ==
  \E t \in Slots :
    /\ tasks[t].kind = "move"
    /\ tasks[t].steps
         = <<"isready", "readyok", "position", "go", "bestmove", "return">>

\* The step taken starts a request of loadAnalysisSuggestions: a call that
\* found the engine ready and the position missing from the cache.
NewLoad(t) == tasks[t].kind = "none" /\ tasks'[t].kind = "load"

\* C31: the generation counter never decreases; a cache-missing
\* loadSuggestions call and a startNewGame each add exactly one to it, a
\* cache-served call leaves it as it is, and no two requests carry the same
\* generation: a new request is stamped with the new value of the counter,
\* which is above the stamp of every request made before.
C31_GenerationsIncreaseAndDiffer ==
  /\ [](\A t \in Slots :
          tasks[t].kind = "load"
          => /\ tasks[t].rid >= 1
             /\ tasks[t].rid <= analysisRequestId
             /\ \A u \in Slots \ {t} :
                  tasks[u].kind = "load" => tasks[u].rid # tasks[t].rid)
  /\ [][/\ analysisRequestId' \in {analysisRequestId, analysisRequestId + 1}
        /\ (\E color \in {"white", "black"} : startNewGame(color))
             => analysisRequestId' = analysisRequestId + 1
        /\ \A t \in Slots :
             NewLoad(t) => /\ analysisRequestId' = analysisRequestId + 1
                           /\ tasks'[t].rid = analysisRequestId'
        /\ enterAnalysisMode => \E t \in Slots : NewLoad(t)
        /\ \A fen \in {analysisBoardFen, analysisBoardFen'} \ {NoFen} :
             LoadCall(fen)
             => IF fen \in DOMAIN analysisCache
                THEN analysisRequestId' = analysisRequestId
                ELSE \E t \in Slots : NewLoad(t) /\ tasks'[t].fen = fen
       ]_vars

\* C31 witness: three generations were handed out and two requests that are
\* still in progress carry two of them.
C31_Witness ==
  /\ analysisRequestId >= 3
  /\ \E t, u \in Slots :
       /\ tasks[t].kind = "load"
       /\ tasks[u].kind = "load"
       /\ tasks[t].rid < tasks[u].rid

\* C32: requestMultiSuggestions called with a generation token that the
\* counter has already passed returns an empty list at once: nothing is sent
\* to the engine, engineBusy is not set, no info or bestmove handler is
\* installed and nothing waits for `readyok`.
C32_StaleAtStartTouchesNothing ==
  [][(/\ probe.op = "ranked"
      /\ probe.token # NoRequestId
      /\ probe.token < analysisRequestId
      /\ ~probe.begun
      /\ probe'.begun)
       => /\ probe'.result = "empty list"
          /\ eng' = eng
          /\ engineBusy' = FALSE
          /\ infoHandler' = 0
          /\ bestResolver' = 0
          /\ readyResolvers' = readyResolvers
          /\ tasks' = tasks
          /\ microQ' = microQ]_vars

\* C32 witness: a request with token 1 was made at generation 2 and has
\* returned the empty list; the only `isready` the engine holds is the one
\* sent at start-up.
C32_Witness ==
  /\ probe.op = "ranked"
  /\ probe.begun
  /\ probe.token = 1
  /\ analysisRequestId = 2
  /\ probe.result = "empty list"
  /\ eng.pendingReady = 1
  /\ readyResolvers = <<>>

\* The generation token of call t has been passed by the counter.
Superseded(t) == tasks[t].rid # 0 /\ tasks[t].rid < analysisRequestId

\* The suggestions accumulated by call t, without the missing ranks.
Accumulated(t) == {tasks[t].sugg[k] : k \in Ranks} \ {NoSugg}

\* The list holds exactly the suggestions of the set, best score first.
SortedListOf(list, set) ==
  /\ SeqToSet(list) = set
  /\ Len(list) = Cardinality(set)
  /\ \A i, j \in 1..Len(list) : i < j => list[i].score >= list[j].score

\* C33: a ranked request that finds itself superseded when its `bestmove`
\* has arrived returns the suggestions accumulated so far, compacted and
\* sorted, and sends nothing more: no second `isready` and no MultiPV reset;
\* its caller then returns without writing to the cache.
C33_SupersededReturnsBestEffort ==
  [][\A t \in Slots :
       /\ (StepOf(t) /\ tasks[t].pc = "best_ms" /\ Superseded(t))
            => /\ tasks'[t].pc = "ms_ret"
               /\ SortedListOf(tasks'[t].ret, Accumulated(t))
               /\ eng' = eng
               /\ readyResolvers' = readyResolvers
       /\ (/\ StepOf(t)
           /\ tasks[t].pc = "ms_ret"
           /\ tasks[t].kind = "load"
           /\ Len(tasks[t].steps) >= 2
           /\ tasks[t].steps[Len(tasks[t].steps) - 1] = "bestmove")
            => /\ Superseded(t)
               /\ analysisCache' = analysisCache
               /\ eng' = eng
               /\ tasks'[t] = NoTask]_vars

\* C33 witness: a superseded request has returned a non-empty list straight
\* after its `bestmove`, and its caller is about to go on.
C33_Witness ==
  \E t \in Slots :
    /\ AtHead(t)
    /\ tasks[t].kind = "load"
    /\ tasks[t].pc = "ms_ret"
    /\ Superseded(t)
    /\ tasks[t].steps =
         <<"isready", "readyok", "position", "go", "bestmove", "return">>
    /\ Len(tasks[t].ret) >= 2
    /\ tasks[t].fen \notin DOMAIN analysisCache

\* C34: the move requestBestMove(P) returns is the move of a `bestmove`
\* that ends a search on P, and once the engine has answered everything no
\* request that sent `go` is still waiting for its `bestmove`.
C34_OwnReplyAndNoneStranded ==
  /\ [][\A t \in Slots :
          (StepOf(t) /\ tasks[t].pc = "best_bm")
            => tasks[t].line \in SeqToSet(LegalMoves(tasks[t].fen))]_vars
  /\ [](NothingPending
          => \A t \in Slots : tasks[t].pc \notin {"best_bm", "best_ms"})

\* Every suggestion of the list was parsed from an info line of a search on
\* the position.
AllFrom(list, fen) == \A i \in 1..Len(list) : list[i].src = fen

\* C35: a list stored in the cache under a position, and a list a request
\* for a position publishes as the current suggestions, holds only
\* suggestions parsed from the info lines of a search on that position.
C35_ListsBelongToTheirPosition ==
  /\ [](\A fen \in DOMAIN analysisCache : AllFrom(analysisCache[fen], fen))
  /\ [][\A t \in Slots :
          (/\ StepOf(t)
           /\ tasks[t].kind = "load"
           /\ analysisSuggestions' # analysisSuggestions)
            => AllFrom(analysisSuggestions', tasks[t].fen)]_vars

\* The line of the probe is one nothing is waiting for: an empty or unknown
\* line, an info line with no handler installed or without the ranked
\* fields, a `bestmove` with no resolver installed.
Unexpected ==
  LET line == probe.text
  IN \/ line.prefix \in {"", "id"}
     \/ line.prefix = "info" /\ (infoHandler = 0 \/ ~line.body.match)
     \/ line.prefix = "bestmove" /\ bestResolver = 0

\* C36: worker.onmessage returns on a line nothing is waiting for and
\* leaves engineBusy, the generation counter, the cache, every request (its
\* accumulated suggestions included: the rank of an unparsable info line
\* stays absent), the waiting continuations and the current suggestions as
\* they are, and sends nothing.
C36_UnexpectedLineDropped ==
  [][(probe.op = "ranked" /\ ~probe.handled /\ probe'.handled /\ Unexpected)
       => /\ engineBusy' = engineBusy
          /\ analysisRequestId' = analysisRequestId
          /\ analysisCache' = analysisCache
          /\ tasks' = tasks
          /\ microQ' = microQ
          /\ readyResolvers' = readyResolvers
          /\ UNCHANGED outVars
          /\ eng' = eng]_vars

\* C36 witness: an info line without the ranked fields was handled while a
\* ranked request had its handler installed and one suggestion stored; the
\* other ranks are still absent.
C36_Witness ==
  /\ probe.op = "ranked"
  /\ probe.handled
  /\ probe.text.prefix = "info"
  /\ ~probe.text.body.match
  /\ infoHandler # 0
  /\ tasks[infoHandler].sugg[1] # NoSugg
  /\ tasks[infoHandler].sugg[2] = NoSugg
  /\ engineBusy

\* C37: when the move a request returns to the engine move effect is not
\* legal in the position of the game, the game, its history and its result
\* stay as they are, the callback completes and engineThinking is reset to
\* false.
C37_IllegalEngineMoveDropped ==
  [][\A t \in Slots :
       (/\ StepOf(t)
        /\ tasks[t].pc = "bm_ret"
        /\ tasks[t].line # "null"
        /\ ~IsLegal(game, tasks[t].line))
       => /\ game' = game
          /\ gameOver' = gameOver
          /\ engineThinking' = FALSE
          /\ tasks'[t] = NoTask]_vars

\* C37 witness: a request is about to hand the effect a move of the side
\* that is not to move in the game, while engineThinking is true.
C37_Witness ==
  \E t \in Slots :
    /\ AtHead(t)
    /\ tasks[t].pc = "bm_ret"
    /\ tasks[t].line # "null"
    /\ ~IsLegal(game, tasks[t].line)
    /\ gameOver = "null"
    /\ engineThinking

\* C38: applyEngineStrength(rating) sends UCI_LimitStrength = true, then
\* UCI_Elo = max(1320, rating), then Skill Level = skillLevel(rating); the
\* UCI_Elo sent is at least 1320 and the Skill Level sent is within 0..20.
C38_StrengthCommands ==
  (probe.op = "strength" /\ probe.applied)
    => /\ Len(probe.posted) = 3
       /\ probe.posted[1] = Cmd("UCI_LimitStrength", 1)
       /\ probe.posted[2].c = "UCI_Elo"
       /\ probe.posted[2].arg =
            (IF probe.strength < 1320 THEN 1320 ELSE probe.strength)
       /\ probe.posted[3].c = "Skill Level"
       /\ probe.posted[3].arg = computeSkillLevel(probe.strength)
       /\ probe.posted[2].arg >= 1320
       /\ probe.posted[3].arg \in 0..20

\* C38 witness: for the rating 1000, below the engine's floor, UCI_Elo 1320
\* and Skill Level 4 were sent.
C38_Witness ==
  /\ probe.op = "strength"
  /\ probe.applied
  /\ probe.strength = 1000
  /\ probe.posted[2].arg = 1320
  /\ probe.posted[3].arg = 4

\* C39: get_analysis_state at index i of the timeline reports as lastMove
\* the move that was played to reach position i (none at i = 0) and as
\* nextMove the move played from position i (none at the final position).
C39_LastAndNextMove ==
  (probe.op = "state" /\ probe.told)
    => /\ probe.lastMove = (IF probe.at = 0 THEN "None"
                            ELSE probe.played[probe.at])
       /\ probe.nextMove = (IF probe.at = Len(probe.played) THEN "None"
                            ELSE probe.played[probe.at + 1])

====
